---------------------------- MODULE Spec2Model ----------------------------
(***************************************************************************)
(* A model of anitomy-rs: the tokenizer (src/src/tokenizer.rs) and the     *)
(* rule-ordered parser (src/src/parser.rs) that turn one file name into a  *)
(* list of typed elements.                                                 *)
(*                                                                         *)
(* A string is a sequence of one-character strings.  The model is ASCII    *)
(* only, so byte length (str::len) and character count coincide.  A &str   *)
(* is a pointer and a length: a token records its value and `start`, the   *)
(* offset of that value in the input buffer.                               *)
(*                                                                         *)
(* usize arithmetic: a debug build panics on overflow, a release build     *)
(* wraps modulo 2^64.  A usize is kept as an integer v with |v| small;     *)
(* v < 0 stands for the wrapped value 2^64 + v.                            *)
(***************************************************************************)
EXTENDS Integers, Sequences, FiniteSets, TLC

VARIABLES
    input,            \* the &str handed to parse_with_options
    overflow_checks,  \* build profile: TRUE = debug (overflow panics), FALSE = release (wraps)
    pc,               \* position in lib::parse_with_options
    cursor,           \* Tokenizer.input, as the number of characters already consumed
    bracket_level,    \* TokenIterator.bracket_level
    tokens,           \* Vec<Token>
    options,          \* Options
    results           \* Vec<Element>

vars == <<input, overflow_checks, pc, cursor, bracket_level, tokens, options, results>>

----------------------------------------------------------------------------
(* Bounds of the model *)

\* longest input enumerated exhaustively over Alphabet
MaxLen == 3

\* characters of the exhaustively enumerated inputs
Alphabet == {"[", "]", ".", "-", "1", "2", "v", "x"}

----------------------------------------------------------------------------
(* Characters and strings *)

Digit == {"0", "1", "2", "3", "4", "5", "6", "7", "8", "9"}

UpperLetters == <<"A","B","C","D","E","F","G","H","I","J","K","L","M",
                  "N","O","P","Q","R","S","T","U","V","W","X","Y","Z">>

LowerLetters == <<"a","b","c","d","e","f","g","h","i","j","k","l","m",
                  "n","o","p","q","r","s","t","u","v","w","x","y","z">>

UpperSet == {UpperLetters[i] : i \in DOMAIN UpperLetters}

is_ascii_digit(c) == c \in Digit

is_ascii_hexdigit(c) ==
    c \in Digit \cup {"a","b","c","d","e","f","A","B","C","D","E","F"}

to_ascii_lowercase(c) ==
    IF c \in UpperSet
    THEN LowerLetters[CHOOSE i \in DOMAIN UpperLetters : UpperLetters[i] = c]
    ELSE c

Lower(s) == [i \in DOMAIN s |-> to_ascii_lowercase(s[i])]

eq_ignore_ascii_case(s, t) == Lower(s) = Lower(t)

all_digits(s) == \A i \in DOMAIN s : is_ascii_digit(s[i])

DigitValue(c) == CHOOSE n \in 0..9 : <<"0","1","2","3","4","5","6","7","8","9">>[n + 1] = c

RECURSIVE DecimalValue(_)
DecimalValue(s) ==
    IF s = <<>> THEN 0
    ELSE 10 * DecimalValue(SubSeq(s, 1, Len(s) - 1)) + DigitValue(s[Len(s)])

NoneValue == 0 - 1

U16Max == 2^16 - 1

\* str::parse::<u16> on a token value: None (NoneValue) unless digits within range
parse_u16(s) ==
    IF s # <<>> /\ all_digits(s) /\ Len(s) <= 9 /\ DecimalValue(s) <= U16Max
    THEN DecimalValue(s)
    ELSE NoneValue

starts_with(s, p) == Len(p) <= Len(s) /\ SubSeq(s, 1, Len(p)) = p

\* the first index of s whose character is in set cs, 0 when there is none
first_index_of(s, cs) ==
    IF \E i \in DOMAIN s : s[i] \in cs
    THEN CHOOSE i \in DOMAIN s : s[i] \in cs /\ \A j \in 1..(i - 1) : s[j] \notin cs
    ELSE 0

Tail1(s, n) == SubSeq(s, n + 1, Len(s))

\* s is a contiguous slice of t
IsSliceOf(s, t) ==
    \E a \in 0..Len(t) : a + Len(s) <= Len(t) /\ SubSeq(t, a + 1, a + Len(s)) = s

----------------------------------------------------------------------------
(* usize values under the build's overflow behaviour *)

usize_lt(a, b) ==
    IF a < 0 /\ b >= 0 THEN FALSE
    ELSE IF a >= 0 /\ b < 0 THEN TRUE
    ELSE a < b

usize_ge(a, b) == ~usize_lt(a, b)

usize_gt(a, b) == usize_lt(b, a)

----------------------------------------------------------------------------
(* Character classes, tokenizer.rs *)

is_open_bracket(ch) == ch \in {"(", "[", "{"}

is_closed_bracket(ch) == ch \in {")", "]", "}"}

opposite_bracket(ch) ==
    CASE ch = "(" -> ")"
      [] ch = "[" -> "]"
      [] ch = "{" -> "}"
      [] ch = ")" -> "("
      [] ch = "]" -> "["
      [] ch = "}" -> "{"
      [] OTHER -> "None"

is_bracket(ch) == is_open_bracket(ch) \/ is_closed_bracket(ch)

is_dash(ch) == ch = "-"

is_space(ch) == ch \in {" ", "\t"}

is_delimiter(ch) ==
    ch \in {"_", ".", ",", "&", "+", "|"} \/ is_space(ch) \/ is_dash(ch)

is_text(ch) == ~is_bracket(ch) /\ ~is_delimiter(ch)

is_keyword_boundary(s) == IF s = <<>> THEN TRUE ELSE ~is_text(s[1])

----------------------------------------------------------------------------
(* Keyword catalogue, keyword.rs.  Keys are stored lower-cased: the map is  *)
(* keyed by UncasedStr.  flags: bit 0 = AMBIGUOUS, bit 1 = UNBOUNDED.  The   *)
(* one non-ASCII key of the catalogue cannot match an ASCII input and is    *)
(* left out.                                                                *)

AMBIGUOUS == 1

UNBOUNDED == 2

KeywordTable ==
    { << <<"2",".","0","c","h">>, "AudioChannels", 0 >>,
      << <<"2","c","h">>, "AudioChannels", 0 >>,
      << <<"5",".","1">>, "AudioChannels", 0 >>,
      << <<"5",".","1","c","h">>, "AudioChannels", 0 >>,
      << <<"7",".","1">>, "AudioChannels", 0 >>,
      << <<"7",".","1","c","h">>, "AudioChannels", 0 >>,
      << <<"d","t","s">>, "AudioChannels", 0 >>,
      << <<"d","t","s","-","e","s">>, "AudioChannels", 0 >>,
      << <<"d","t","s","5",".","1">>, "AudioChannels", 0 >>,
      << <<"d","o","l","b","y"," ","t","r","u","e","h","d">>, "AudioChannels", 0 >>,
      << <<"t","r","u","e","h","d">>, "AudioChannels", 0 >>,
      << <<"t","r","u","e","h","d","5",".","1">>, "AudioChannels", 0 >>,
      << <<"d","d","5",".","1">>, "AudioChannels", 0 >>,
      << <<"d","d","2",".","0">>, "AudioChannels", 0 >>,
      << <<"a","a","c">>, "AudioCodec", 0 >>,
      << <<"a","a","c","2",".","0">>, "AudioCodec", 0 >>,
      << <<"a","a","c","x","2">>, "AudioCodec", 0 >>,
      << <<"a","a","c","x","3">>, "AudioCodec", 0 >>,
      << <<"a","a","c","x","4">>, "AudioCodec", 0 >>,
      << <<"a","c","3">>, "AudioCodec", 0 >>,
      << <<"e","a","c","3">>, "AudioCodec", 0 >>,
      << <<"e","-","a","c","-","3">>, "AudioCodec", 0 >>,
      << <<"f","l","a","c">>, "AudioCodec", 0 >>,
      << <<"f","l","a","c","x","2">>, "AudioCodec", 0 >>,
      << <<"f","l","a","c","x","3">>, "AudioCodec", 0 >>,
      << <<"f","l","a","c","x","4">>, "AudioCodec", 0 >>,
      << <<"l","o","s","s","l","e","s","s">>, "AudioCodec", 0 >>,
      << <<"m","p","3">>, "AudioCodec", 0 >>,
      << <<"o","g","g">>, "AudioCodec", 0 >>,
      << <<"v","o","r","b","i","s">>, "AudioCodec", 0 >>,
      << <<"a","t","m","o","s">>, "AudioCodec", 0 >>,
      << <<"d","o","l","b","y"," ","a","t","m","o","s">>, "AudioCodec", 0 >>,
      << <<"o","p","u","s">>, "AudioCodec", 1 >>,
      << <<"d","u","a","l","a","u","d","i","o">>, "AudioLanguage", 0 >>,
      << <<"d","u","a","l"," ","a","u","d","i","o">>, "AudioLanguage", 0 >>,
      << <<"d","u","a","l","-","a","u","d","i","o">>, "AudioLanguage", 0 >>,
      << <<"a","n","d","r","o","i","d">>, "DeviceCompatibility", 1 >>,
      << <<"i","p","a","d","3">>, "DeviceCompatibility", 0 >>,
      << <<"i","p","h","o","n","e","5">>, "DeviceCompatibility", 0 >>,
      << <<"i","p","o","d">>, "DeviceCompatibility", 0 >>,
      << <<"p","s","3">>, "DeviceCompatibility", 0 >>,
      << <<"x","b","o","x">>, "DeviceCompatibility", 0 >>,
      << <<"x","b","o","x","3","6","0">>, "DeviceCompatibility", 0 >>,
      << <<"e","p">>, "Episode", 0 >>,
      << <<"e","p","s">>, "Episode", 0 >>,
      << <<"e","p","i","s","o","d","e">>, "Episode", 0 >>,
      << <<"e","p","i","s","o","d","e","s">>, "Episode", 0 >>,
      << <<"e","p","i","s","o","d","i","o">>, "Episode", 0 >>,
      << <<"c","a","p","i","t","u","l","o">>, "Episode", 0 >>,
      << <<"f","o","l","g","e">>, "Episode", 0 >>,
      << <<"o","p">>, "EpisodeType", 1 >>,
      << <<"o","p","e","n","i","n","g">>, "EpisodeType", 1 >>,
      << <<"e","d">>, "EpisodeType", 1 >>,
      << <<"e","n","d","i","n","g">>, "EpisodeType", 1 >>,
      << <<"n","c","e","d">>, "EpisodeType", 0 >>,
      << <<"n","c","o","p">>, "EpisodeType", 0 >>,
      << <<"p","r","e","v","i","e","w">>, "EpisodeType", 1 >>,
      << <<"p","v">>, "EpisodeType", 1 >>,
      << <<"3","g","p">>, "FileExtension", 0 >>,
      << <<"a","v","i">>, "FileExtension", 0 >>,
      << <<"f","l","v">>, "FileExtension", 0 >>,
      << <<"m","2","t","s">>, "FileExtension", 0 >>,
      << <<"m","k","v">>, "FileExtension", 0 >>,
      << <<"m","o","v">>, "FileExtension", 0 >>,
      << <<"m","p","4">>, "FileExtension", 0 >>,
      << <<"m","p","g">>, "FileExtension", 0 >>,
      << <<"o","g","m">>, "FileExtension", 0 >>,
      << <<"r","m">>, "FileExtension", 0 >>,
      << <<"r","m","v","b">>, "FileExtension", 0 >>,
      << <<"t","s">>, "FileExtension", 0 >>,
      << <<"w","e","b","m">>, "FileExtension", 0 >>,
      << <<"w","m","v">>, "FileExtension", 0 >>,
      << <<"a","s","s">>, "FileExtension", 0 >>,
      << <<"s","r","t">>, "FileExtension", 0 >>,
      << <<"s","s","a">>, "FileExtension", 0 >>,
      << <<"7","z">>, "FileExtension", 0 >>,
      << <<"z","i","p">>, "FileExtension", 0 >>,
      << <<"e","n","g">>, "Language", 0 >>,
      << <<"e","n","g","l","i","s","h">>, "Language", 0 >>,
      << <<"e","s","p">>, "Language", 1 >>,
      << <<"e","s","p","a","n","o","l">>, "Language", 0 >>,
      << <<"s","p","a","n","i","s","h">>, "Language", 0 >>,
      << <<"i","t","a">>, "Language", 1 >>,
      << <<"j","a","p">>, "Language", 0 >>,
      << <<"j","p">>, "Language", 0 >>,
      << <<"j","a">>, "Language", 0 >>,
      << <<"j","p","n">>, "Language", 0 >>,
      << <<"p","t","-","b","r">>, "Language", 0 >>,
      << <<"v","o","s","t","f","r">>, "Language", 0 >>,
      << <<"c","h","t">>, "Language", 0 >>,
      << <<"c","h","s">>, "Language", 0 >>,
      << <<"c","h","i">>, "Language", 0 >>,
      << <<"r","e","m","a","s","t","e","r">>, "Other", 0 >>,
      << <<"r","e","m","a","s","t","e","r","e","d">>, "Other", 0 >>,
      << <<"u","n","c","e","n","s","o","r","e","d">>, "Other", 0 >>,
      << <<"u","n","c","u","t">>, "Other", 0 >>,
      << <<"v","f","r">>, "Other", 0 >>,
      << <<"w","i","d","e","s","c","r","e","e","n">>, "Other", 0 >>,
      << <<"w","s">>, "Other", 0 >>,
      << <<"t","h","o","r","a">>, "ReleaseGroup", 0 >>,
      << <<"u","t","w","-","t","h","o","r","a">>, "ReleaseGroup", 0 >>,
      << <<"j","p","t","v","c","l","u","b">>, "ReleaseGroup", 0 >>,
      << <<"b","a","t","c","h">>, "ReleaseInformation", 0 >>,
      << <<"c","o","m","p","l","e","t","e">>, "ReleaseInformation", 0 >>,
      << <<"e","n","d">>, "ReleaseInformation", 1 >>,
      << <<"f","i","n","a","l">>, "ReleaseInformation", 1 >>,
      << <<"p","a","t","c","h">>, "ReleaseInformation", 0 >>,
      << <<"r","e","m","u","x">>, "ReleaseInformation", 0 >>,
      << <<"v","0">>, "ReleaseVersion", 0 >>,
      << <<"v","1">>, "ReleaseVersion", 0 >>,
      << <<"v","2">>, "ReleaseVersion", 0 >>,
      << <<"v","3">>, "ReleaseVersion", 0 >>,
      << <<"v","4">>, "ReleaseVersion", 0 >>,
      << <<"s","e","a","s","o","n">>, "Season", 1 >>,
      << <<"s","a","i","s","o","n">>, "Season", 1 >>,
      << <<"b","d">>, "Source", 0 >>,
      << <<"b","d","r","i","p">>, "Source", 0 >>,
      << <<"b","l","u","r","a","y">>, "Source", 0 >>,
      << <<"b","l","u","-","r","a","y">>, "Source", 0 >>,
      << <<"d","v","d">>, "Source", 0 >>,
      << <<"d","v","d","5">>, "Source", 0 >>,
      << <<"d","v","d","9">>, "Source", 0 >>,
      << <<"d","v","d","i","s","o">>, "Source", 0 >>,
      << <<"d","v","d","r","i","p">>, "Source", 0 >>,
      << <<"d","v","d","-","r","i","p">>, "Source", 0 >>,
      << <<"r","2","d","v","d">>, "Source", 0 >>,
      << <<"r","2","j">>, "Source", 0 >>,
      << <<"r","2","j","d","v","d">>, "Source", 0 >>,
      << <<"r","2","j","d","v","d","r","i","p">>, "Source", 0 >>,
      << <<"h","d","t","v">>, "Source", 0 >>,
      << <<"h","d","t","v","r","i","p">>, "Source", 0 >>,
      << <<"t","v","r","i","p">>, "Source", 0 >>,
      << <<"t","v","-","r","i","p">>, "Source", 0 >>,
      << <<"w","e","b">>, "Source", 1 >>,
      << <<"w","e","b","c","a","s","t">>, "Source", 0 >>,
      << <<"w","e","b","d","l">>, "Source", 0 >>,
      << <<"w","e","b","-","d","l">>, "Source", 0 >>,
      << <<"w","e","b","r","i","p">>, "Source", 0 >>,
      << <<"a","m","z","n">>, "Source", 0 >>,
      << <<"c","r">>, "Source", 0 >>,
      << <<"c","r","u","n","c","h","y","r","o","l","l">>, "Source", 0 >>,
      << <<"d","s","n","p">>, "Source", 0 >>,
      << <<"f","u","n","i">>, "Source", 0 >>,
      << <<"f","u","n","i","m","a","t","i","o","n">>, "Source", 0 >>,
      << <<"h","i","d","i">>, "Source", 0 >>,
      << <<"h","i","d","i","v","e">>, "Source", 0 >>,
      << <<"h","u","l","u">>, "Source", 0 >>,
      << <<"n","e","t","f","l","i","x">>, "Source", 0 >>,
      << <<"n","f">>, "Source", 0 >>,
      << <<"v","r","v">>, "Source", 0 >>,
      << <<"y","o","u","t","u","b","e">>, "Source", 0 >>,
      << <<"b","i","g","5">>, "Subtitles", 0 >>,
      << <<"d","u","b">>, "Subtitles", 0 >>,
      << <<"d","u","b","b","e","d">>, "Subtitles", 0 >>,
      << <<"h","a","r","d","s","u","b">>, "Subtitles", 0 >>,
      << <<"h","a","r","d","s","u","b","s">>, "Subtitles", 0 >>,
      << <<"r","a","w">>, "Subtitles", 0 >>,
      << <<"s","o","f","t","s","u","b">>, "Subtitles", 0 >>,
      << <<"s","o","f","t","s","u","b","s">>, "Subtitles", 0 >>,
      << <<"s","u","b">>, "Subtitles", 0 >>,
      << <<"s","u","b","b","e","d">>, "Subtitles", 0 >>,
      << <<"s","u","b","t","i","t","l","e","d">>, "Subtitles", 0 >>,
      << <<"m","u","l","t","i","s","u","b">>, "Subtitles", 0 >>,
      << <<"m","u","l","t","i"," ","s","u","b">>, "Subtitles", 0 >>,
      << <<"m","u","l","t","i","-","s","u","b">>, "Subtitles", 0 >>,
      << <<"c","c">>, "Subtitles", 1 >>,
      << <<"s","d","h">>, "Subtitles", 1 >>,
      << <<"t","v">>, "Type", 1 >>,
      << <<"m","o","v","i","e">>, "Type", 1 >>,
      << <<"g","e","k","i","j","o","u","b","a","n">>, "Type", 1 >>,
      << <<"o","a","d">>, "Type", 1 >>,
      << <<"o","a","v">>, "Type", 1 >>,
      << <<"o","n","a">>, "Type", 1 >>,
      << <<"o","v","a">>, "Type", 1 >>,
      << <<"s","p">>, "Type", 1 >>,
      << <<"s","p","e","c","i","a","l">>, "Type", 1 >>,
      << <<"s","p","e","c","i","a","l","s">>, "Type", 1 >>,
      << <<"8","b","i","t">>, "VideoColorDepth", 0 >>,
      << <<"8","-","b","i","t">>, "VideoColorDepth", 0 >>,
      << <<"1","0","b","i","t">>, "VideoColorDepth", 0 >>,
      << <<"1","0","b","i","t","s">>, "VideoColorDepth", 0 >>,
      << <<"1","0","-","b","i","t">>, "VideoColorDepth", 0 >>,
      << <<"1","0","-","b","i","t","s">>, "VideoColorDepth", 0 >>,
      << <<"a","v","1">>, "VideoCodec", 0 >>,
      << <<"a","v","c">>, "VideoCodec", 0 >>,
      << <<"d","i","v","x","5">>, "VideoCodec", 0 >>,
      << <<"d","i","v","x","6">>, "VideoCodec", 0 >>,
      << <<"h",".","2","6","4">>, "VideoCodec", 0 >>,
      << <<"h",".","2","6","5">>, "VideoCodec", 0 >>,
      << <<"x",".","2","6","4">>, "VideoCodec", 0 >>,
      << <<"h","2","6","4">>, "VideoCodec", 0 >>,
      << <<"h","2","6","5">>, "VideoCodec", 0 >>,
      << <<"x","2","6","4">>, "VideoCodec", 0 >>,
      << <<"x","2","6","5">>, "VideoCodec", 0 >>,
      << <<"h","e","v","c">>, "VideoCodec", 0 >>,
      << <<"h","e","v","c","2">>, "VideoCodec", 0 >>,
      << <<"x","v","i","d">>, "VideoCodec", 0 >>,
      << <<"h","d","r">>, "VideoCodec", 0 >>,
      << <<"d","v">>, "VideoCodec", 0 >>,
      << <<"d","o","l","b","y"," ","v","i","s","i","o","n">>, "VideoCodec", 0 >>,
      << <<"w","m","v","3">>, "VideoFormat", 0 >>,
      << <<"w","m","v","9">>, "VideoFormat", 0 >>,
      << <<"2","3",".","9","7","6","f","p","s">>, "VideoFrameRate", 0 >>,
      << <<"2","4","f","p","s">>, "VideoFrameRate", 0 >>,
      << <<"2","9",".","9","7","f","p","s">>, "VideoFrameRate", 0 >>,
      << <<"3","0","f","p","s">>, "VideoFrameRate", 0 >>,
      << <<"6","0","f","p","s">>, "VideoFrameRate", 0 >>,
      << <<"1","2","0","f","p","s">>, "VideoFrameRate", 0 >>,
      << <<"h","i","1","0">>, "VideoProfile", 0 >>,
      << <<"h","i","1","0","p">>, "VideoProfile", 0 >>,
      << <<"h","i","4","4","4">>, "VideoProfile", 0 >>,
      << <<"h","i","4","4","4","p">>, "VideoProfile", 0 >>,
      << <<"h","i","4","4","4","p","p">>, "VideoProfile", 0 >>,
      << <<"h","d">>, "VideoQuality", 0 >>,
      << <<"s","d">>, "VideoQuality", 0 >>,
      << <<"h","q">>, "VideoQuality", 0 >>,
      << <<"l","q">>, "VideoQuality", 0 >>,
      << <<"4","8","0","p">>, "VideoResolution", 2 >>,
      << <<"7","2","0","p">>, "VideoResolution", 2 >>,
      << <<"1","0","8","0","p">>, "VideoResolution", 2 >>,
      << <<"1","4","4","0","p">>, "VideoResolution", 2 >>,
      << <<"2","1","6","0","p">>, "VideoResolution", 2 >>,
      << <<"4","k">>, "VideoResolution", 0 >>,
      << <<"v","o","l">>, "Volume", 0 >>,
      << <<"v","o","l","u","m","e">>, "Volume", 0 >> }

KeywordKeys == {e[1] : e \in KeywordTable}

\* every prefix of every key: KEYWORDS.keys().filter(|key| key.starts_with(prefix)).count() > 0
KeyPrefixes == UNION {{SubSeq(k, 1, n) : n \in 1..Len(k)} : k \in KeywordKeys}

NoKeyword == [kind |-> "None", flags |-> 0]

KEYWORDS_get(key) ==
    LET keyword_of(entry) == [kind |-> entry[2], flags |-> entry[3]]
    IN  keyword_of(CHOOSE e \in KeywordTable : e[1] = Lower(key))

is_ambiguous(keyword) == keyword.flags \in {AMBIGUOUS, AMBIGUOUS + UNBOUNDED}

is_bounded(keyword) == keyword.flags \notin {UNBOUNDED, AMBIGUOUS + UNBOUNDED}

keyword_is(token, kind) == token.keyword.kind = kind

----------------------------------------------------------------------------
(* Token, tokenizer.rs *)

Token(kind, value, start, keyword, is_enclosed) ==
    [kind |-> kind, value |-> value, start |-> start, keyword |-> keyword,
     unknown |-> TRUE, is_enclosed |-> is_enclosed, position |-> 0]

\* a faulty mark_known that leaves the flag set (C3 must tell it apart)
mark_known_keeps_flag(token) == token

\* a faulty mark_known that also invalidates the token (C29 must tell it apart)
mark_known_invalidates(token) == [token EXCEPT !.unknown = FALSE, !.kind = "Invalid"]

mark_known(token) == [token EXCEPT !.unknown = FALSE]

is_identified(token) == ~token.unknown

\* a faulty is_free that forgets the unknown flag (C4 must tell it apart)
is_free_ignores_flag(token) == token.kind \in {"Text", "Number", "Keyword"}

is_free(token) == token.kind \in {"Text", "Number", "Keyword"} /\ token.unknown

tok_is_open_bracket(token) == token.kind = "OpenBracket"

tok_is_closed_bracket(token) == token.kind = "CloseBracket"

tok_is_bracket(token) == token.kind \in {"OpenBracket", "CloseBracket"}

tok_is_delimiter(token) == token.kind = "Delimiter"

is_not_delimiter(token) == token.kind # "Delimiter"

is_number(token) == token.kind = "Number"

tok_is_text(token) == token.kind = "Text"

\* a faulty test that takes only Number tokens
is_mostly_numbers_only_numbers(token) == is_number(token)

is_mostly_numbers(token) ==
    IF is_number(token) THEN TRUE
    ELSE IF tok_is_text(token)
    THEN LET codepoints == Len(token.value)
             numbers == Cardinality({i \in DOMAIN token.value : is_ascii_digit(token.value[i])})
         IN  numbers * 2 >= codepoints
    ELSE FALSE

----------------------------------------------------------------------------
(* Tokenizer, tokenizer.rs *)

\* the loop of take_keyword: the length of the longest prefix of inp that is a
\* catalogue key, 0 when the scan leaves `key` empty
RECURSIVE take_keyword_scan(_, _, _)
take_keyword_scan(inp, i, key) ==
    IF i > Len(inp) THEN key
    ELSE LET prefix == Lower(SubSeq(inp, 1, i))
             key2 == IF prefix \in KeywordKeys THEN i ELSE key
         IN  IF prefix \in KeyPrefixes THEN take_keyword_scan(inp, i + 1, key2)
             ELSE IF key2 = 0 THEN 0
             ELSE take_keyword_scan(inp, i + 1, key2)

\* a faulty take_keyword that skips the boundary test (C18 must tell it apart)
take_keyword_unchecked(inp) == take_keyword_scan(inp, 1, 0)

\* Tokenizer::take_keyword on the remaining input: the number of characters
\* taken, 0 for None
take_keyword(inp) ==
    LET \* the boundary check of the n characters taken, which name `keyword`
        check_boundary(n, keyword, rest) ==
            IF is_bounded(keyword) /\ ~is_keyword_boundary(rest)
               /\ ~(is_ambiguous(keyword)
                    /\ (IF rest = <<>> THEN TRUE ELSE is_ascii_digit(rest[1])))
            THEN 0
            ELSE n
        lookup(n) ==
            IF n = 0 THEN 0
            ELSE check_boundary(n, KEYWORDS_get(SubSeq(inp, 1, n)), Tail1(inp, n))
    IN  lookup(take_keyword_scan(inp, 1, 0))

\* Tokenizer::take_text: the length of the maximal run of text characters
take_text(inp) ==
    IF \E i \in DOMAIN inp : ~is_text(inp[i])
    THEN first_index_of(inp, {inp[i] : i \in {j \in DOMAIN inp : ~is_text(inp[j])}}) - 1
    ELSE Len(inp)


\* a faulty depth test that is off by one (C7 must tell it apart)
is_enclosed_at_depth_two(level) == usize_gt(level, 1)

\* let is_enclosed = self.bracket_level > 0
is_enclosed_at(level) == usize_gt(level, 0)

\* one call of TokenIterator::next with cur characters of inp already consumed
TokenIterator_next(inp, cur, level, oc) ==
    LET rest == Tail1(inp, cur)
        is_enclosed == is_enclosed_at(level)
        none == [status |-> "None", cursor |-> cur, bracket_level |-> level]
        \* a keyword of n characters, else a run of m text characters
        keyword_or_text(n, m) ==
            IF n > 0
            THEN [status |-> "Some", cursor |-> cur + n, bracket_level |-> level,
                  token |-> Token("Keyword", SubSeq(rest, 1, n), cur,
                                  KEYWORDS_get(SubSeq(rest, 1, n)), is_enclosed)]
            ELSE IF m = 0 THEN none
            ELSE [status |-> "Some", cursor |-> cur + m, bracket_level |-> level,
                  token |-> Token(IF all_digits(SubSeq(rest, 1, m)) THEN "Number" ELSE "Text",
                                  SubSeq(rest, 1, m), cur, NoKeyword, is_enclosed)]
    IN  IF rest = <<>> THEN none
        ELSE IF is_open_bracket(rest[1])
        THEN [status |-> "Some", cursor |-> cur + 1, bracket_level |-> level + 1,
              token |-> Token("OpenBracket", <<rest[1]>>, cur, NoKeyword,
                              usize_ge(level + 1, 2))]
        ELSE IF is_closed_bracket(rest[1])
        THEN IF level = 0 /\ oc
             THEN [status |-> "Panic", cursor |-> cur, bracket_level |-> level]
             ELSE [status |-> "Some", cursor |-> cur + 1, bracket_level |-> level - 1,
                   token |-> Token("CloseBracket", <<rest[1]>>, cur, NoKeyword,
                                   usize_ge(level - 1, 1))]
        ELSE IF is_delimiter(rest[1])
        THEN [status |-> "Some", cursor |-> cur + 1, bracket_level |-> level,
              token |-> Token("Delimiter", <<rest[1]>>, cur, NoKeyword, is_enclosed)]
        ELSE keyword_or_text(take_keyword(rest), take_text(rest))

----------------------------------------------------------------------------
(* utils.rs *)

\* get_pair_mut(slice, i, j) with 0-based usize indices: "None", "Some" (the pair is
\* slice[i], slice[j]) or "Panic" (right[0] of an empty right half)
get_pair_mut(slice, i, j) ==
    IF usize_ge(i, j) \/ usize_gt(j, Len(slice)) THEN "None"
    ELSE IF j = Len(slice) THEN "Panic"
    ELSE "Some"

----------------------------------------------------------------------------
(* Tokenizer::tokens: the fusion pass, tokenizer.rs *)

FusableStart == {".", "-", "&", "+", "~"}

\* the condition under which the delimiter at 0-based index absorbs its neighbours
should_combine(previous, next, is_dot) ==
    \/ is_mostly_numbers(previous) /\ is_mostly_numbers(next)
    \/ /\ is_dot
       /\ tok_is_text(previous)
       /\ eq_ignore_ascii_case(previous.value, <<"N", "o">>)
       /\ is_number(next)

\* the loop `for index in 0..tokens.len()`; k = index + 1
RECURSIVE fusion_loop(_, _, _, _, _)
fusion_loop(toks, k, start_length, original, oc) ==
    IF k > Len(toks) THEN [panic |-> FALSE, tokens |-> toks]
    ELSE LET index == k - 1
             token_length == Len(toks[k].value)
             is_dot == toks[k].value = <<".">>
         IN  IF tok_is_delimiter(toks[k]) /\ toks[k].value[1] \in FusableStart
             THEN IF index = 0 /\ oc
                  THEN [panic |-> TRUE, tokens |-> toks]
                  ELSE LET pair == get_pair_mut(toks, index - 1, index + 1)
                       IN  IF pair = "Panic" THEN [panic |-> TRUE, tokens |-> toks]
                           ELSE IF pair = "Some"
                                   /\ should_combine(toks[k - 1], toks[k + 1], is_dot)
                           THEN LET start == start_length - Len(toks[k - 1].value)
                                    end == start_length + token_length + Len(toks[k + 1].value)
                                    fused == [toks EXCEPT
                                                ![k - 1].kind = "Invalid",
                                                ![k + 1].kind = "Invalid",
                                                ![k].kind = "Text",
                                                ![k].value = SubSeq(original, start + 1, end),
                                                ![k].start = start]
                                IN  fusion_loop(fused, k + 1, start_length + token_length,
                                                original, oc)
                           ELSE fusion_loop(toks, k + 1, start_length + token_length,
                                            original, oc)
             ELSE fusion_loop(toks, k + 1, start_length + token_length, original, oc)

\* a faulty retain that keeps the tokens a fusion absorbed
retain_valid_keeps_all(toks) == toks

\* tokens.retain(|t| t.kind != TokenKind::Invalid)
retain_valid(toks) == SelectSeq(toks, LAMBDA t : t.kind # "Invalid")

\* a faulty numbering that counts from the second token
assign_positions_late(toks) ==
    [i \in DOMAIN toks |-> [toks[i] EXCEPT !.position = IF i = 1 THEN 0 ELSE i - 2]]

\* token.position = index
assign_positions(toks) == [i \in DOMAIN toks |-> [toks[i] EXCEPT !.position = i - 1]]

\* the part of Tokenizer::tokens after the iterator is collected
Tokenizer_tokens(toks, original, oc) ==
    LET r == fusion_loop(toks, 1, 0, original, oc)
    IN  IF r.panic THEN r
        ELSE [panic |-> FALSE, tokens |-> assign_positions(retain_valid(r.tokens))]

----------------------------------------------------------------------------
(* Element, element.rs, and the token searches of parser.rs.  Token indices  *)
(* are 1-based here: the token at Rust index i is toks[i + 1], and 0 stands  *)
(* for None.                                                                 *)

Element(kind, value, position) == [kind |-> kind, value |-> value, position |-> position]

Element_new(kind, token) == Element(kind, token.value, token.position)

MinOf(S) == CHOOSE x \in S : \A y \in S : x <= y

MaxOf(S) == CHOOSE x \in S : \A y \in S : x >= y

\* find_prev_token(tokens, Some(k - 1), predicate); k = Len + 1 for position None
find_prev_token(toks, k, matching) ==
    LET S == {j \in 1..(k - 1) : j \in matching}
    IN  IF S = {} THEN 0 ELSE MaxOf(S)

\* find_next_token(tokens, k - 1, skip, predicate)
find_next_token(toks, k, skip, matching) ==
    LET offset == IF skip THEN k + 1 ELSE k
        S == {j \in offset..Len(toks) : j \in matching}
    IN  IF S = {} THEN 0 ELSE MinOf(S)

\* utils::find_pair_mut: <<first, second>> as 1-based indices, <<0, 0>> for None
find_pair_mut(toks, first, second) ==
    LET index == find_next_token(toks, 1, FALSE, first)
    IN  IF index = 0 THEN <<0, 0>>
        ELSE LET second_index == find_next_token(toks, index, TRUE, second)
             IN  IF second_index = 0 THEN <<0, 0>> ELSE <<index, second_index>>

is_token_isolated(toks, k) ==
    LET previous == find_prev_token(toks, k, {ix \in DOMAIN toks : is_not_delimiter(toks[ix])})
        next == find_next_token(toks, k, TRUE, {ix \in DOMAIN toks : is_not_delimiter(toks[ix])})
    IN  /\ previous # 0
        /\ tok_is_bracket(toks[previous])
        /\ next # 0
        /\ tok_is_bracket(toks[next])

MaxEpisodeDigits == 4

\* a faulty validity test that forgets the digits (C9 must tell it apart)
is_valid_episode_number_any(s) == s # <<>> /\ Len(s) <= MaxEpisodeDigits

is_valid_episode_number(s) == s # <<>> /\ Len(s) <= MaxEpisodeDigits /\ all_digits(s)

----------------------------------------------------------------------------
(* The rules of parser.rs.  A rule takes the token list and the result list  *)
(* and returns both as [tokens, results].                                    *)

Out(toks, res) == [tokens |-> toks, results |-> res]

MarkAt(toks, k) == [toks EXCEPT ![k] = mark_known(@)]

\* a rule that did not fire
NotFired(toks, res) == [fired |-> FALSE, tokens |-> toks, results |-> res]

Fired(toks, res) == [fired |-> TRUE, tokens |-> toks, results |-> res]

\* `return` after a rule that fired, else the rules that follow it
or_else(r, following) == IF r.fired THEN r ELSE following

AppendIf(res, cond, el) == IF cond THEN Append(res, el) ELSE res

parse_file_extension(toks, res) ==
    IF Len(toks) < 2 THEN Out(toks, res)
    ELSE LET n == Len(toks)
             previous == toks[n - 1]
             last == toks[n]
             is_file_extension == keyword_is(last, "FileExtension")
             is_dot == tok_is_delimiter(previous) /\ previous.value = <<".">>
         IN  IF is_file_extension /\ is_dot
             THEN Out(MarkAt(MarkAt(toks, n - 1), n),
                      Append(res, Element_new("FileExtension", last)))
             ELSE Out(toks, res)

keyword_kind_to_element_kind(kind) ==
    CASE kind \in {"AudioChannels", "AudioCodec", "AudioLanguage"} -> "AudioTerm"
      [] kind = "DeviceCompatibility" -> "DeviceCompatibility"
      [] kind = "EpisodeType" -> "Type"
      [] kind = "Language" -> "Language"
      [] kind = "Other" -> "Other"
      [] kind = "ReleaseGroup" -> "ReleaseGroup"
      [] kind = "ReleaseInformation" -> "ReleaseInformation"
      [] kind = "ReleaseVersion" -> "ReleaseVersion"
      [] kind = "Source" -> "Source"
      [] kind = "Subtitles" -> "Subtitles"
      [] kind = "Type" -> "Type"
      [] kind \in {"VideoCodec", "VideoColorDepth", "VideoFormat", "VideoFrameRate",
                   "VideoProfile", "VideoQuality"} -> "VideoTerm"
      [] kind = "VideoResolution" -> "VideoResolution"
      [] OTHER -> "None"

\* a faulty loop body that marks every keyword token it emits for (C25 must
\* tell it apart)
parse_keywords_token_marking(toks, opts, res, k) ==
    IF \/ ~is_free(toks[k])
       \/ toks[k].keyword = NoKeyword
       \/ toks[k].keyword.kind = "ReleaseGroup" /\ ~opts["parse_release_group"]
       \/ toks[k].keyword.kind = "VideoResolution" /\ ~opts["parse_video_resolution"]
       \/ keyword_kind_to_element_kind(toks[k].keyword.kind) = "None"
    THEN Out(toks, res)
    ELSE Out(MarkAt(toks, k),
             Append(res, Element(keyword_kind_to_element_kind(toks[k].keyword.kind),
                                 IF toks[k].keyword.kind = "ReleaseVersion"
                                 THEN Tail1(toks[k].value, 1) ELSE toks[k].value,
                                 toks[k].position)))

\* the body of the loop of parse_keywords for the token at k
parse_keywords_token(toks, opts, res, k) ==
    LET token == toks[k]
        keyword == token.keyword
        element_kind == keyword_kind_to_element_kind(keyword.kind)
    IN  IF \/ ~is_free(token)
           \/ keyword = NoKeyword
           \/ keyword.kind = "ReleaseGroup" /\ ~opts["parse_release_group"]
           \/ keyword.kind = "VideoResolution" /\ ~opts["parse_video_resolution"]
           \/ element_kind = "None"
        THEN Out(toks, res)
        ELSE Out(IF ~is_ambiguous(keyword) \/ token.is_enclosed THEN MarkAt(toks, k) ELSE toks,
                 Append(res, Element(element_kind,
                                     IF keyword.kind = "ReleaseVersion"
                                     THEN Tail1(token.value, 1) ELSE token.value,
                                     token.position)))

RECURSIVE parse_keywords_from(_, _, _, _)
parse_keywords_from(toks, opts, res, k) ==
    IF k > Len(toks) THEN Out(toks, res)
    ELSE LET r == parse_keywords_token(toks, opts, res, k)
         IN  parse_keywords_from(r.tokens, opts, r.results, k + 1)

parse_keywords(toks, opts, res) == parse_keywords_from(toks, opts, res, 1)

ChecksumLen == 8

is_checksum_token(t) ==
    is_free(t) /\ Len(t.value) = ChecksumLen
    /\ \A i \in DOMAIN t.value : is_ascii_hexdigit(t.value[i])

\* a faulty scan that starts at the front of the list
parse_file_checksum_from_front(toks, res) ==
    LET k == find_next_token(toks, 1, FALSE,
                             {ix \in DOMAIN toks : is_checksum_token(toks[ix])})
    IN  IF k = 0 THEN Out(toks, res)
        ELSE Out(MarkAt(toks, k), Append(res, Element("FileChecksum", toks[k].value, k - 1)))

parse_file_checksum(toks, res) ==
    LET k == find_prev_token(toks, Len(toks) + 1, {ix \in DOMAIN toks : is_checksum_token(toks[ix])})
    IN  IF k = 0 THEN Out(toks, res)
        ELSE Out(MarkAt(toks, k), Append(res, Element("FileChecksum", toks[k].value, k - 1)))

\* the length of the run of ASCII digits that s starts with
digit_run(s) ==
    IF \E i \in DOMAIN s : ~is_ascii_digit(s[i])
    THEN MinOf({i \in DOMAIN s : ~is_ascii_digit(s[i])}) - 1
    ELSE Len(s)

\* ^\d{3,4}(?:[ip]|[xX]\d{3,4}[ip]?)$   (the non-ASCII multiplication sign is left out)
is_video_resolution(s) ==
    LET n == digit_run(s)
        rest == Tail1(s, n)
    IN  /\ n \in {3, 4}
        /\ \/ rest \in {<<"i">>, <<"p">>}
           \/ /\ rest # <<>>
              /\ rest[1] \in {"x", "X"}
              /\ LET rest2 == Tail1(rest, 1)
                     m == digit_run(rest2)
                 IN  /\ m \in {3, 4}
                     /\ Tail1(rest2, m) \in {<<>>, <<"i">>, <<"p">>}

RECURSIVE parse_video_resolution_from(_, _, _)
parse_video_resolution_from(toks, res, k) ==
    IF k > Len(toks) THEN Out(toks, res)
    ELSE IF is_free(toks[k]) /\ is_video_resolution(toks[k].value)
    THEN parse_video_resolution_from(MarkAt(toks, k),
                                     Append(res, Element_new("VideoResolution", toks[k])), k + 1)
    ELSE parse_video_resolution_from(toks, res, k + 1)

is_plain_resolution_number(t) ==
    is_free(t) /\ is_number(t)
    /\ (t.value = <<"1", "0", "8", "0">> \/ t.value = <<"7", "2", "0">>)

\* a faulty parse_video_resolution whose last resort marks its token known
\* (C24 must tell it apart)
parse_video_resolution_marking(toks, res) ==
    LET last_resort(r, k) ==
            IF (~\E i \in DOMAIN r.results : r.results[i].kind = "VideoResolution") /\ k # 0
            THEN Out(MarkAt(r.tokens, k),
                     Append(r.results, Element_new("VideoResolution", r.tokens[k])))
            ELSE r
        after(r) ==
            last_resort(r, find_next_token(r.tokens, 1, FALSE,
                {ix \in DOMAIN r.tokens : is_plain_resolution_number(r.tokens[ix])}))
    IN  after(parse_video_resolution_from(toks, res, 1))

parse_video_resolution(toks, res) ==
    LET r == parse_video_resolution_from(toks, res, 1)
        found == \E i \in DOMAIN r.results : r.results[i].kind = "VideoResolution"
        k == find_next_token(r.tokens, 1, FALSE, {ix \in DOMAIN r.tokens : is_plain_resolution_number(r.tokens[ix])})
    IN  IF ~found /\ k # 0
        THEN Out(r.tokens, Append(r.results, Element_new("VideoResolution", r.tokens[k])))
        ELSE r

YearMin == 1950

YearMax == 2050

\* a faulty range that opens one year early
is_year_from_1949(s) == parse_u16(s) # NoneValue /\ parse_u16(s) \in (YearMin - 1)..YearMax

is_year(s) == parse_u16(s) # NoneValue /\ parse_u16(s) \in YearMin..YearMax

parse_year(toks, res) ==
    LET W == {k \in 1..(Len(toks) - 2) :
                /\ tok_is_open_bracket(toks[k])
                /\ tok_is_closed_bracket(toks[k + 2])
                /\ is_free(toks[k + 1])
                /\ is_number(toks[k + 1])
                /\ is_year(toks[k + 1].value)}
        I == {k \in DOMAIN toks :
                /\ is_free(toks[k]) /\ is_number(toks[k]) /\ ~toks[k].is_enclosed
                /\ is_year(toks[k].value)
                /\ is_token_isolated(toks, toks[k].position + 1)}
    IN  IF W # {}
        THEN LET idx == MinOf(W) + 1
             IN  Out(MarkAt(toks, idx), Append(res, Element_new("Year", toks[idx])))
        ELSE IF I # {}
        THEN LET index == toks[MinOf(I)].position + 1
             IN  Out(MarkAt(toks, index), Append(res, Element_new("Year", toks[index])))
        ELSE Out(toks, res)

from_ordinal_number(s) ==
    LET l == Lower(s)
    IN  CASE l \in {<<"1","s","t">>, <<"f","i","r","s","t">>} -> <<"1">>
          [] l \in {<<"2","n","d">>, <<"s","e","c","o","n","d">>} -> <<"2">>
          [] l \in {<<"3","r","d">>, <<"t","h","i","r","d">>} -> <<"3">>
          [] l \in {<<"4","t","h">>, <<"f","o","u","r","t","h">>} -> <<"4">>
          [] l \in {<<"5","t","h">>, <<"f","i","f","t","h">>} -> <<"5">>
          [] l \in {<<"6","t","h">>, <<"s","i","x","t","h">>} -> <<"6">>
          [] l \in {<<"7","t","h">>, <<"s","e","v","e","n","t","h">>} -> <<"7">>
          [] l \in {<<"8","t","h">>, <<"e","i","g","h","t","h">>} -> <<"8">>
          [] l \in {<<"9","t","h">>, <<"n","i","n","t","h">>} -> <<"9">>
          [] OTHER -> <<>>

from_roman_number(s) ==
    CASE s = <<"I","I">> -> <<"2">>
      [] s = <<"I","I","I">> -> <<"3">>
      [] s = <<"I","V">> -> <<"4">>
      [] s = <<"V">> -> <<"5">>
      [] s = <<"V","I">> -> <<"6">>
      [] s = <<"V","I","I">> -> <<"7">>
      [] OTHER -> <<>>

MarkThree(toks, k) == MarkAt(MarkAt(MarkAt(toks, k), k + 1), k + 2)

\* the windows of three of inner_parse_season, from the window starting at k;
\* [found, tokens, element]
RECURSIVE inner_parse_season(_, _)
inner_parse_season(toks, k) ==
    IF k + 2 > Len(toks) THEN [found |-> FALSE, tokens |-> toks]
    ELSE LET first == toks[k]
             mid == toks[k + 1]
             last == toks[k + 2]
         IN  IF /\ keyword_is(last, "Season") /\ tok_is_delimiter(mid) /\ is_free(first)
                /\ from_ordinal_number(first.value) # <<>>
             THEN [found |-> TRUE, tokens |-> MarkThree(toks, k),
                   element |-> Element("Season", from_ordinal_number(first.value),
                                       first.position)]
             ELSE IF /\ keyword_is(first, "Season") /\ tok_is_delimiter(mid) /\ is_free(last)
                     /\ (is_number(last) \/ from_roman_number(last.value) # <<>>)
             THEN [found |-> TRUE, tokens |-> MarkThree(toks, k),
                   element |-> Element("Season",
                                       IF is_number(last) THEN last.value
                                       ELSE from_roman_number(last.value),
                                       last.position)]
             ELSE inner_parse_season(toks, k + 1)

SeasonDigitsMax == 2

\* the `S\d{1,2}` pattern on a token value: the digits, <<>> when it does not match
season_suffix(value) ==
    IF value # <<>> /\ value[1] \in {"S", "s"}
       /\ Len(value) - 1 \in 1..SeasonDigitsMax /\ all_digits(Tail1(value, 1))
    THEN Tail1(value, 1)
    ELSE <<>>

\* the counter pattern with its non-ASCII suffix cannot match an ASCII token
parse_season(toks, res) ==
    LET r == inner_parse_season(toks, 1)
        S == {k \in DOMAIN toks : is_free(toks[k]) /\ season_suffix(toks[k].value) # <<>>}
    IN  IF r.found THEN Out(r.tokens, Append(res, r.element))
        ELSE IF S # {}
        THEN LET k == MinOf(S)
             IN  Out(MarkAt(toks, k),
                     Append(res, Element("Season", season_suffix(toks[k].value),
                                         toks[k].position)))
        ELSE Out(toks, res)

----------------------------------------------------------------------------
(* Episode numbers, parser.rs *)

\* str::split_once on the first character of set cs: [found, first, last]
split_once(s, cs) ==
    LET i == first_index_of(s, cs)
    IN  IF i = 0 THEN [found |-> FALSE, first |-> s, last |-> <<>>]
        ELSE [found |-> TRUE, first |-> SubSeq(s, 1, i - 1), last |-> Tail1(s, i)]

\* parse_single_episode: [ok, prefix, suffix]
parse_single_episode(s) ==
    LET sp == split_once(s, {"v", "V"})
        none == [ok |-> FALSE, prefix |-> <<>>, suffix |-> <<>>]
    IN  IF sp.found
        THEN IF /\ is_valid_episode_number(sp.first)
                /\ Len(sp.last) = 1
                /\ is_ascii_digit(sp.last[1])
             THEN [ok |-> TRUE, prefix |-> sp.first, suffix |-> sp.last]
             ELSE none
        ELSE IF is_valid_episode_number(s)
        THEN [ok |-> TRUE, prefix |-> s, suffix |-> <<>>]
        ELSE none

RangeSeparators == {"-", "~", "&", "+"}

\* the comparison of the two ends of a range
range_in_order(x, y) == x < y

\* parse_multi_episode_range(tokens, k - 1, results, kind): [fired, tokens, results]
parse_multi_episode_range(toks, k, res, kind) ==
    LET pos == toks[k].position
        \* the number of one end of the range, and its version when it has one
        push_end(r, single) ==
            AppendIf(Append(r, Element(kind, single.prefix, pos)),
                     single.suffix # <<>>,
                     Element("ReleaseVersion", single.suffix, pos))
        compare_ends(lo, up, x, y) ==
            IF x # NoneValue /\ y # NoneValue /\ range_in_order(x, y)
            THEN Fired(MarkAt(toks, k), push_end(push_end(res, lo), up))
            ELSE NotFired(toks, res)
        parse_ends(lo, up) ==
            IF lo.ok /\ up.ok
            THEN compare_ends(lo, up, parse_u16(lo.prefix), parse_u16(up.prefix))
            ELSE NotFired(toks, res)
        split_range(sp) ==
            IF sp.found
            THEN parse_ends(parse_single_episode(sp.first), parse_single_episode(sp.last))
            ELSE NotFired(toks, res)
    IN  split_range(split_once(toks[k].value, RangeSeparators))

\* the body of the loop of parse_volume for the token at k
parse_volume_token(toks, res, k) ==
    LET next == find_next_token(toks, k, TRUE, {ix \in DOMAIN toks : is_not_delimiter(toks[ix])})
    IN  IF ~keyword_is(toks[k], "Volume") \/ next = 0 THEN Out(toks, res)
        ELSE IF ~is_free(toks[next]) THEN Out(toks, res)
        ELSE LET range == parse_multi_episode_range(toks, next, res, "Volume")
                 single == parse_single_episode(toks[next].value)
                 r1 == Append(res, Element("Volume", single.prefix, k - 1))
                 r2 == IF single.suffix # <<>>
                       THEN Append(r1, Element("ReleaseVersion", single.suffix, k - 1))
                       ELSE r1
             IN  IF range.fired
                 THEN Out(MarkAt(MarkAt(range.tokens, k), next), range.results)
                 ELSE IF single.ok
                 THEN Out(MarkAt(MarkAt(toks, k), next), r2)
                 ELSE Out(toks, res)

RECURSIVE parse_volume_from(_, _, _)
parse_volume_from(toks, res, k) ==
    IF k > Len(toks) THEN Out(toks, res)
    ELSE LET r == parse_volume_token(toks, res, k)
         IN  parse_volume_from(r.tokens, r.results, k + 1)

parse_volume(toks, res) == parse_volume_from(toks, res, 1)

\* ^(?:E|[Ee][Pp]|Eps)(\d{1,4}(?:\.5)?)(?:[vV](\d))?$ after the prefix:
\* [ok, number, version]
episode_prefix_tail(rest) ==
    LET none == [ok |-> FALSE, number |-> <<>>, version |-> <<>>]
        \* what follows the number: nothing, or a version
        tail_version(m, after) ==
            IF after = <<>>
            THEN [ok |-> TRUE, number |-> SubSeq(rest, 1, m), version |-> <<>>]
            ELSE IF Len(after) = 2 /\ after[1] \in {"v", "V"} /\ is_ascii_digit(after[2])
            THEN [ok |-> TRUE, number |-> SubSeq(rest, 1, m), version |-> <<after[2]>>]
            ELSE none
        \* the number is n digits, with ".5" when it follows
        tail_number(n, m) ==
            IF n \in 1..MaxEpisodeDigits THEN tail_version(m, Tail1(rest, m)) ELSE none
        tail_digits(n) ==
            tail_number(n, IF n + 2 <= Len(rest) /\ rest[n + 1] = "." /\ rest[n + 2] = "5"
                           THEN n + 2 ELSE n)
    IN  tail_digits(digit_run(rest))

\* episode_prefix_regex().captures(value): [ok, number, version]
episode_prefix_regex(value) ==
    LET e == IF starts_with(value, <<"E">>)
             THEN episode_prefix_tail(Tail1(value, 1))
             ELSE [ok |-> FALSE]
        ep == IF Len(value) >= 2 /\ value[1] \in {"E", "e"} /\ value[2] \in {"P", "p"}
              THEN episode_prefix_tail(Tail1(value, 2))
              ELSE [ok |-> FALSE]
        eps == IF starts_with(value, <<"E", "p", "s">>)
               THEN episode_prefix_tail(Tail1(value, 3))
               ELSE [ok |-> FALSE]
    IN  IF e.ok THEN e
        ELSE IF ep.ok THEN ep
        ELSE IF eps.ok THEN eps
        ELSE [ok |-> FALSE, number |-> <<>>, version |-> <<>>]

\* the character class [ ._-x]: space, dot, and the range from '_' to 'x' (the
\* grave accent of that range is no character of the model)
SeparatorClass ==
    {" ", ".", "_"} \cup {LowerLetters[i] : i \in 1..24}

\* a run of lo..hi digits at the front of s that no further digit follows:
\* its length, 0 when there is none
digits_within(s, hi) ==
    LET n == digit_run(s)
    IN  IF n \in 1..hi THEN n ELSE 0

\* ^S?(\d{1,2})(?:-S?(\d{1,2}))?(?:x|[ ._-x]?E)(\d{1,4})(?:-E?(\d{1,4}))?(?:[vV](\d))?$
\* [ok, season, season2, episode, episode2, version]; <<>> for a group that took no part
season_and_episode_regex(value) ==
    LET none == [ok |-> FALSE, season |-> <<>>, season2 |-> <<>>, episode |-> <<>>,
                 episode2 |-> <<>>, version |-> <<>>]
        \* the optional version and the end of the value
        se_version(m, f) ==
            IF f = <<>> THEN m
            ELSE IF Len(f) = 2 /\ f[1] \in {"v", "V"} /\ is_ascii_digit(f[2])
            THEN [m EXCEPT !.version = <<f[2]>>]
            ELSE none
        \* the optional second episode
        se_episode2(m, e) ==
            LET e1 == IF starts_with(e, <<"-", "E">>) THEN Tail1(e, 2)
                      ELSE IF starts_with(e, <<"-">>) THEN Tail1(e, 1) ELSE <<>>
                n4 == IF starts_with(e, <<"-">>) THEN digits_within(e1, MaxEpisodeDigits) ELSE 0
            IN  IF n4 > 0
                THEN se_version([m EXCEPT !.episode2 = SubSeq(e1, 1, n4)], Tail1(e1, n4))
                ELSE se_version(m, e)
        se_episode(m, d) ==
            LET n3 == digits_within(d, MaxEpisodeDigits)
            IN  IF n3 > 0
                THEN se_episode2([m EXCEPT !.episode = SubSeq(d, 1, n3)], Tail1(d, n3))
                ELSE none
        \* the separator
        se_separator(m, c) ==
            se_episode(m,
                IF Len(c) >= 2 /\ c[1] = "x" /\ is_ascii_digit(c[2]) THEN Tail1(c, 1)
                ELSE IF starts_with(c, <<"E">>) THEN Tail1(c, 1)
                ELSE IF Len(c) >= 2 /\ c[1] \in SeparatorClass /\ c[2] = "E" THEN Tail1(c, 2)
                ELSE <<>>)
        \* the optional second season
        se_season2(m, b) ==
            LET b1 == IF starts_with(b, <<"-", "S">>) THEN Tail1(b, 2)
                      ELSE IF starts_with(b, <<"-">>) THEN Tail1(b, 1) ELSE <<>>
                n2 == IF starts_with(b, <<"-">>) THEN digits_within(b1, SeasonDigitsMax) ELSE 0
            IN  IF n2 > 0
                THEN se_separator([m EXCEPT !.season2 = SubSeq(b1, 1, n2)], Tail1(b1, n2))
                ELSE se_separator(m, b)
        se_season(a) ==
            LET n1 == digits_within(a, SeasonDigitsMax)
            IN  IF n1 > 0
                THEN se_season2([none EXCEPT !.ok = TRUE, !.season = SubSeq(a, 1, n1)],
                                Tail1(a, n1))
                ELSE none
    IN  se_season(IF /\ starts_with(value, <<"S">>)
                     /\ digits_within(Tail1(value, 1), SeasonDigitsMax) > 0
                  THEN Tail1(value, 1) ELSE value)

\* the first min(n, hi) digits of the digit run s starts with
digits_upto(s, hi) == IF digit_run(s) > hi THEN hi ELSE digit_run(s)

\* #(\d{1,4})(?:[-~&+](\d{1,4}))?(?:[vV](\d))? searched anywhere in the value:
\* [ok, episode, episode2, version]
number_sign_episode_regex(value) ==
    LET sign_version(c) ==
            IF Len(c) >= 2 /\ c[1] \in {"v", "V"} /\ is_ascii_digit(c[2])
            THEN <<c[2]>> ELSE <<>>
        \* b follows the first number; n2 digits follow its range separator
        sign_second(m, b, n2) ==
            [m EXCEPT !.episode2 = SubSeq(b, 2, 1 + n2),
                      !.version = sign_version(Tail1(b, 1 + n2))]
        sign_range(m, b) ==
            IF Len(b) >= 2 /\ b[1] \in RangeSeparators /\ is_ascii_digit(b[2])
            THEN sign_second(m, b, digits_upto(Tail1(b, 1), MaxEpisodeDigits))
            ELSE [m EXCEPT !.version = sign_version(b)]
        sign_first(a, n1) ==
            sign_range([ok |-> TRUE, episode |-> SubSeq(a, 1, n1), episode2 |-> <<>>,
                        version |-> <<>>],
                       Tail1(a, n1))
        sign_at(a) == sign_first(a, digits_upto(a, MaxEpisodeDigits))
        P == {i \in 1..(Len(value) - 1) : value[i] = "#" /\ is_ascii_digit(value[i + 1])}
    IN  IF P = {} THEN [ok |-> FALSE, episode |-> <<>>, episode2 |-> <<>>, version |-> <<>>]
        ELSE sign_at(Tail1(value, MinOf(P)))

\* a faulty equivalent_partner that takes a second number that is not isolated
\* (C21 must tell it apart)
equivalent_partner_any_second(toks, k) ==
    IF is_token_isolated(toks, k) \/ ~is_valid_episode_number(toks[k].value) THEN 0
    ELSE LET bracket == find_next_token(toks, k, TRUE, {ix \in DOMAIN toks : is_not_delimiter(toks[ix])})
         IN  IF bracket = 0 THEN 0
             ELSE IF ~tok_is_bracket(toks[bracket]) THEN 0
             ELSE LET next == find_next_token(toks, bracket, TRUE, {ix \in DOMAIN toks : is_not_delimiter(toks[ix])})
                  IN  IF next = 0 THEN 0
                      ELSE IF /\ is_free(toks[next])
                              /\ is_number(toks[next])
                              /\ is_valid_episode_number(toks[next].value)
                              /\ parse_u16(toks[next].value) # NoneValue
                      THEN next
                      ELSE 0

\* Equivalent numbers (e.g. `01 (176)`): can the free number at k open the pair,
\* and with which second number (0 when it cannot)
equivalent_partner(toks, k) ==
    IF is_token_isolated(toks, k) \/ ~is_valid_episode_number(toks[k].value) THEN 0
    ELSE LET bracket == find_next_token(toks, k, TRUE, {ix \in DOMAIN toks : is_not_delimiter(toks[ix])})
         IN  IF bracket = 0 THEN 0
             ELSE IF ~tok_is_bracket(toks[bracket]) THEN 0
             ELSE LET next == find_next_token(toks, bracket, TRUE, {ix \in DOMAIN toks : is_not_delimiter(toks[ix])})
                  IN  IF next = 0 THEN 0
                      ELSE IF /\ is_free(toks[next])
                              /\ is_number(toks[next])
                              /\ is_valid_episode_number(toks[next].value)
                              /\ is_token_isolated(toks, next)
                              /\ parse_u16(toks[k].value) # NoneValue
                              /\ parse_u16(toks[next].value) # NoneValue
                      THEN next
                      ELSE 0

\* a faulty parse_equivalent_numbers that gives EpisodeAlt to the first of two
\* equal numbers (C22 must tell it apart)
parse_equivalent_numbers_ge(toks, res) ==
    LET C == {k \in DOMAIN toks :
                /\ is_free(toks[k]) /\ is_number(toks[k])
                /\ equivalent_partner(toks, toks[k].position + 1) # 0}
        emit(index, next, first, second) ==
            Fired(MarkAt(MarkAt(toks, next), index),
                  Append(Append(res, Element_new(IF first >= second THEN "Episode"
                                                 ELSE "EpisodeAlt", toks[next])),
                         Element_new(IF first >= second THEN "EpisodeAlt" ELSE "Episode",
                                     toks[index])))
        at(index) == emit(index, equivalent_partner(toks, index),
                          parse_u16(toks[index].value),
                          parse_u16(toks[equivalent_partner(toks, index)].value))
    IN  IF C = {} THEN NotFired(toks, res) ELSE at(toks[MinOf(C)].position + 1)

parse_equivalent_numbers(toks, res) ==
    LET C == {k \in DOMAIN toks :
                /\ is_free(toks[k]) /\ is_number(toks[k])
                /\ equivalent_partner(toks, toks[k].position + 1) # 0}
    IN  IF C = {} THEN NotFired(toks, res)
        ELSE LET index == toks[MinOf(C)].position + 1
                 next == equivalent_partner(toks, index)
                 first == parse_u16(toks[index].value)
                 second == parse_u16(toks[next].value)
                 a == IF first > second THEN "EpisodeAlt" ELSE "Episode"
                 b == IF first > second THEN "Episode" ELSE "EpisodeAlt"
                 marked == MarkAt(MarkAt(toks, next), index)
             IN  Fired(marked,
                       Append(Append(res, Element_new(b, marked[next])),
                              Element_new(a, marked[index])))

is_not_delimiter_or_amp(t) == is_not_delimiter(t) \/ t.value = <<"&">>

\* parse_number_in_number_episode for the number at k: the connector and the other
\* number as <<middle, other>>, <<0, 0>> when the number at k does not qualify
number_in_number_at(toks, k) ==
    LET middle == find_next_token(toks, k, TRUE, {ix \in DOMAIN toks : is_not_delimiter_or_amp(toks[ix])})
    IN  IF ~(is_free(toks[k]) /\ is_number(toks[k])) \/ middle = 0 THEN <<0, 0>>
        ELSE IF toks[middle].value # <<"&">> /\ toks[middle].value # <<"o", "f">> THEN <<0, 0>>
        ELSE LET other == find_next_token(toks, middle, TRUE, {ix \in DOMAIN toks : is_not_delimiter(toks[ix])})
             IN  IF other = 0 THEN <<0, 0>>
                 ELSE IF ~is_number(toks[other]) THEN <<0, 0>>
                 ELSE <<middle, other>>

\* Number comes before another number (e.g. `8 & 10`, `01 of 24`)
parse_number_in_number_episode(toks, res) ==
    LET C == {k \in DOMAIN toks : number_in_number_at(toks, k) # <<0, 0>>}
    IN  IF C = {} THEN NotFired(toks, res)
        ELSE LET index == MinOf(C)
                 pair == number_in_number_at(toks, index)
                 marked == MarkAt(MarkAt(MarkAt(toks, pair[2]), pair[1]), index)
             IN  Fired(marked, Append(res, Element_new("Episode", marked[index])))

\* the Episode keyword followed by a number, at the free token k
episode_keyword_rule(toks, res, kind, k) ==
    LET next == find_next_token(toks, k, TRUE, {ix \in DOMAIN toks : is_not_delimiter(toks[ix])})
    IN  IF ~keyword_is(toks[k], "Episode") \/ next = 0 THEN NotFired(toks, res)
        ELSE IF ~(is_free(toks[next]) /\ is_mostly_numbers(toks[next])) THEN NotFired(toks, res)
        ELSE LET range == parse_multi_episode_range(toks, next, res, kind)
             IN  IF range.fired THEN Fired(MarkAt(range.tokens, k), range.results)
                 ELSE IF is_number(toks[next])
                 THEN Fired(MarkAt(MarkAt(toks, k), next),
                            Append(res, Element_new(kind, toks[next])))
                 ELSE NotFired(toks, res)

\* the rules tried on the value of the free token k, after the range rule
episode_value_rules(toks, res, kind, k) ==
    LET token == toks[k]
        pos == token.position
        prefixed == episode_prefix_regex(token.value)
        se == season_and_episode_regex(token.value)
        single == parse_single_episode(token.value)
        hash == number_sign_episode_regex(token.value)
        n == Len(token.value)
        dot == split_once(token.value, {"."})
        marked == MarkAt(toks, k)
    IN  IF prefixed.ok
        THEN Fired(marked,
                   AppendIf(Append(res, Element(kind, prefixed.number, pos)),
                            prefixed.version # <<>>,
                            Element("ReleaseVersion", prefixed.version, pos)))
        ELSE IF se.ok /\ DecimalValue(se.season) # 0
        THEN Fired(marked,
                   AppendIf(
                     AppendIf(
                       Append(
                         AppendIf(Append(res, Element("Season", se.season, pos)),
                                  se.season2 # <<>>, Element("Season", se.season2, pos)),
                         Element(kind, se.episode, pos)),
                       se.episode2 # <<>>, Element(kind, se.episode2, pos)),
                     se.version # <<>>, Element("ReleaseVersion", se.version, pos)))
        ELSE IF single.ok /\ single.suffix # <<>>
        THEN Fired(marked,
                   Append(Append(res, Element(kind, single.prefix, pos)),
                          Element("ReleaseVersion", single.suffix, pos)))
        ELSE IF hash.ok
        THEN Fired(marked,
                   AppendIf(
                     AppendIf(Append(res, Element(kind, hash.episode, pos)),
                              hash.episode2 # <<>>, Element(kind, hash.episode2, pos)),
                     hash.version # <<>>, Element("ReleaseVersion", hash.version, pos)))
        ELSE IF /\ n >= 1
                /\ token.value[n] \in {"A", "B", "C", "a", "b", "c"}
                /\ is_valid_episode_number(SubSeq(token.value, 1, n - 1))
        THEN Fired(marked, Append(res, Element_new(kind, token)))
        ELSE IF dot.found /\ dot.last = <<"5">> /\ is_valid_episode_number(dot.first)
        THEN Fired(marked, Append(res, Element_new(kind, token)))
        ELSE NotFired(toks, res)

\* one pass of the loop `for index in 0..tokens.len()` of parse_episode, from k
RECURSIVE episode_token_loop(_, _, _, _)
episode_token_loop(toks, res, kind, k) ==
    IF k > Len(toks) THEN NotFired(toks, res)
    ELSE IF ~is_free(toks[k]) THEN episode_token_loop(toks, res, kind, k + 1)
    ELSE or_else(episode_keyword_rule(toks, res, kind, k),
         or_else(parse_multi_episode_range(toks, k, res, kind),
         or_else(episode_value_rules(toks, res, kind, k),
                 episode_token_loop(toks, res, kind, k + 1))))

is_type_keyword_not_movie(t) ==
    keyword_is(t, "Type") /\ ~eq_ignore_ascii_case(t.value, <<"m", "o", "v", "i", "e">>)

\* Type and episode (e.g. `ED1`, `OP4a`, `OVA2`)
parse_type_and_episode(toks, res, kind) ==
    LET pair == find_pair_mut(toks,
            {ix \in DOMAIN toks : is_type_keyword_not_movie(toks[ix])},
            {ix \in DOMAIN toks : is_not_delimiter(toks[ix])})
    IN  IF pair # <<0, 0>> /\ is_free(toks[pair[2]]) /\ is_number(toks[pair[2]])
        THEN Fired(MarkAt(toks, pair[2]), Append(res, Element_new(kind, toks[pair[2]])))
        ELSE NotFired(toks, res)

is_dash_delimiter(t) == tok_is_delimiter(t) /\ t.value # <<>> /\ is_dash(t.value[1])

\* Separated number (e.g. ` - 08`)
parse_separated_number(toks, res, kind) ==
    LET C == {k \in DOMAIN toks :
                /\ is_dash_delimiter(toks[k])
                /\ LET j == find_next_token(toks, k, FALSE, {ix \in DOMAIN toks : is_not_delimiter(toks[ix])})
                   IN  j # 0 /\ is_number(toks[j]) /\ is_free(toks[j])}
    IN  IF C = {} THEN NotFired(toks, res)
        ELSE LET index == MinOf(C)
                 j == find_next_token(toks, index, FALSE, {ix \in DOMAIN toks : is_not_delimiter(toks[ix])})
             IN  Fired(MarkAt(MarkAt(toks, j), index), Append(res, Element_new(kind, toks[j])))

\* Isolated number (e.g. [12], (2006), etc.)
parse_isolated_number(toks, res, kind) ==
    LET W == {k \in 1..(Len(toks) - 2) :
                /\ tok_is_open_bracket(toks[k])
                /\ tok_is_closed_bracket(toks[k + 2])
                /\ is_free(toks[k + 1])
                /\ is_number(toks[k + 1])}
    IN  IF W = {} THEN NotFired(toks, res)
        ELSE LET m == MinOf(W) + 1
             IN  Fired(MarkAt(toks, m), Append(res, Element_new(kind, toks[m])))

is_movie_or_part(t) ==
    /\ is_free(t)
    /\ \/ eq_ignore_ascii_case(t.value, <<"m", "o", "v", "i", "e">>)
       \/ eq_ignore_ascii_case(t.value, <<"p", "a", "r", "t">>)

\* the candidates of the last-number loop that are not skipped
last_number_candidates(toks) ==
    {k \in 2..Len(toks) :
        /\ is_free(toks[k]) /\ is_number(toks[k]) /\ ~toks[k].is_enclosed
        /\ ~(\A j \in 1..(k - 1) : toks[j].is_enclosed \/ tok_is_delimiter(toks[j]))
        /\ LET previous == find_prev_token(toks, k, {ix \in DOMAIN toks : is_not_delimiter(toks[ix])})
           IN  ~(previous # 0 /\ is_movie_or_part(toks[previous]))}

\* which of the candidates the loop takes
pick_last_number(C) == MinOf(C)

\* Last number
parse_last_number(toks, res, kind) ==
    LET C == last_number_candidates(toks)
    IN  IF C = {} THEN NotFired(toks, res)
        ELSE LET index == pick_last_number(C)
             IN  Fired(MarkAt(toks, index), Append(res, Element_new(kind, toks[index])))

\* a faulty parse_episode that tries the type keyword before the loop over the
\* tokens (C19 must tell it apart)
parse_episode_type_first(toks, res, kind) ==
    or_else(IF kind = "Episode" THEN parse_equivalent_numbers(toks, res)
            ELSE NotFired(toks, res),
    or_else(parse_number_in_number_episode(toks, res),
    or_else(parse_type_and_episode(toks, res, kind),
    or_else(episode_token_loop(toks, res, kind, 1),
    or_else(parse_separated_number(toks, res, kind),
    or_else(parse_isolated_number(toks, res, kind),
            parse_last_number(toks, res, kind)))))))

\* parse_episode(tokens, results, kind)
parse_episode(toks, res, kind) ==
    or_else(IF kind = "Episode" THEN parse_equivalent_numbers(toks, res)
            ELSE NotFired(toks, res),
    or_else(parse_number_in_number_episode(toks, res),
    or_else(episode_token_loop(toks, res, kind, 1),
    or_else(parse_type_and_episode(toks, res, kind),
    or_else(parse_separated_number(toks, res, kind),
    or_else(parse_isolated_number(toks, res, kind),
            parse_last_number(toks, res, kind)))))))

----------------------------------------------------------------------------
(* combine_tokens, tokenizer.rs *)

\* tokens.iter().filter(is_delimiter).filter_map(first char of the value)
delimiter_chars(slice) ==
    {slice[i].value[1] : i \in {j \in DOMAIN slice :
        tok_is_delimiter(slice[j]) /\ slice[j].value # <<>>}}

is_underscore(ch) == ch = "_"

\* a faulty is_transformable_delimiter that replaces every '.' (C28 must tell
\* it apart)
is_transformable_delimiter_dots(slice, token, keep) ==
    /\ ~keep
    /\ tok_is_delimiter(token)
    /\ token.value # <<>>
    /\ token.value[1] \notin {",", "&"}
    /\ \/ is_space(token.value[1]) \/ token.value[1] = "_" \/ token.value[1] = "."
       \/ /\ ~\E ch \in delimiter_chars(slice) : is_space(ch) \/ is_underscore(ch)
          /\ Cardinality({i \in DOMAIN slice : tok_is_delimiter(slice[i])}) = 1

is_transformable_delimiter(slice, token, keep) ==
    LET has_single_delimiter ==
            Cardinality({i \in DOMAIN slice : tok_is_delimiter(slice[i])}) = 1
        has_spaces == \E ch \in delimiter_chars(slice) : is_space(ch)
        has_underscores == \E ch \in delimiter_chars(slice) : is_underscore(ch)
        ch == token.value[1]
    IN  IF keep THEN FALSE
        ELSE IF is_not_delimiter(token) THEN FALSE
        ELSE IF token.value = <<>> THEN FALSE
        ELSE IF ch = "," \/ ch = "&" THEN FALSE
        ELSE IF is_space(ch) \/ ch = "_" THEN TRUE
        ELSE IF has_spaces \/ has_underscores THEN FALSE
        ELSE IF ch = "." THEN TRUE
        ELSE has_single_delimiter

RECURSIVE concat_tokens(_, _, _)
concat_tokens(slice, keep, i) ==
    IF i > Len(slice) THEN <<>>
    ELSE (IF is_transformable_delimiter(slice, slice[i], keep) THEN <<" ">> ELSE slice[i].value)
         \o concat_tokens(slice, keep, i + 1)

is_trimmed_char(ch) == ch = " " \/ is_dash(ch)

\* str::trim_matches(|ch| ch == ' ' || is_dash(ch))
trim_matches(s) ==
    LET K == {i \in DOMAIN s : ~is_trimmed_char(s[i])}
    IN  IF K = {} THEN <<>> ELSE SubSeq(s, MinOf(K), MaxOf(K))

RECURSIVE join_tokens(_, _)
join_tokens(slice, i) ==
    IF i > Len(slice) THEN <<>>
    ELSE slice[i].value \o (IF i < Len(slice) THEN <<" ">> ELSE <<>>) \o join_tokens(slice, i + 1)

\* a faulty combine_tokens that joins the token values with spaces (C5 must
\* tell it apart)
combine_tokens_joined(slice, keep) == join_tokens(slice, 1)

\* combine_tokens(tokens, keep); keep = TRUE for KeepDelimiters::Yes
combine_tokens(slice, keep) ==
    LET buffer == concat_tokens(slice, keep, 1)
    IN  IF keep THEN buffer ELSE trim_matches(buffer)

----------------------------------------------------------------------------
(* Title, release group and episode title, parser.rs.  A range is           *)
(* [status, first, last]: status "None", "Panic" (the slice expression       *)
(* panics) or "Some" with the tokens first .. last - 1 (1-based).            *)

NoRange == [status |-> "None", first |-> 0, last |-> 0]

\* tokens[x..y] for the 1-based first and the exclusive end last
MakeRange(first, last) ==
    IF first > last THEN [status |-> "Panic", first |-> first, last |-> last]
    ELSE [status |-> "Some", first |-> first, last |-> last]

RangeTokens(toks, range) == SubSeq(toks, range.first, range.last - 1)

is_free_unenclosed(t) == is_free(t) /\ ~t.is_enclosed

\* the fallback start of find_title: <<first, last>> with 0 for None
title_fallback(toks) ==
    LET pair == find_pair_mut(toks,
            {ix \in DOMAIN toks : tok_is_closed_bracket(toks[ix])},
            {ix \in DOMAIN toks : tok_is_open_bracket(toks[ix])})
    IN  IF pair = <<0, 0>> THEN <<0, 0>>
        ELSE LET open == toks[pair[2]]
                 opposite == opposite_bracket(open.value[1])
                 index == open.position + 1
                 first == find_next_token(toks, index, FALSE, {ix \in DOMAIN toks : is_free(toks[ix])})
                 is_opposite(t) == tok_is_bracket(t) /\ starts_with(t.value, <<opposite>>)
             IN  IF first = 0 THEN <<0, 0>>
                 ELSE <<first, find_next_token(toks, first, TRUE, {ix \in DOMAIN toks : is_opposite(toks[ix])})>>

is_closed_not_paren(t) == tok_is_closed_bracket(t) /\ t.value # <<")">>

find_title(toks) ==
    LET \* Prevent titles ending with brackets (except parentheses)
        trim_bracket(first, last1, last2, idx, new_last) ==
            IF first > last1 THEN [status |-> "Panic", first |-> first, last |-> last1]
            ELSE MakeRange(first,
                           IF idx # 0 /\ is_closed_not_paren(toks[idx]) /\ new_last # 0
                           THEN new_last ELSE last2)
        last_token(first, last1, last2, idx) ==
            trim_bracket(first, last1, last2, idx,
                IF idx = 0 THEN 0
                ELSE find_prev_token(toks, idx,
                                     {ix \in DOMAIN toks : tok_is_open_bracket(toks[ix])}))
        \* Prevent titles with mismatched brackets
        mismatched(first, last1, opens, closed_count) ==
            IF opens # {} /\ closed_count # Cardinality(opens)
            THEN MaxOf(opens) ELSE last1
        count_brackets(first, last1, opens, closed_count) ==
            last_token(first, last1, mismatched(first, last1, opens, closed_count),
                find_prev_token(toks, mismatched(first, last1, opens, closed_count),
                                {ix \in DOMAIN toks : is_not_delimiter(toks[ix])}))
        \* let slice = &tokens[index..last.unwrap_or(tokens.len())]
        slice_of(first, last1) ==
            count_brackets(first, last1,
                {j \in first..(last1 - 1) : tok_is_open_bracket(toks[j])},
                Cardinality({j \in first..(last1 - 1) : tok_is_closed_bracket(toks[j])}))
        bounds(first, last0) ==
            IF first = 0 THEN NoRange
            ELSE slice_of(first, IF last0 = 0 THEN Len(toks) + 1 ELSE last0)
        \* the first free unenclosed range, else the fallback
        start(first0) ==
            IF first0 # 0
            THEN bounds(first0,
                        find_next_token(toks, first0, TRUE,
                                        {ix \in DOMAIN toks : is_identified(toks[ix])}))
            ELSE bounds(title_fallback(toks)[1], title_fallback(toks)[2])
    IN  start(find_next_token(toks, 1, FALSE,
                              {ix \in DOMAIN toks : is_free_unenclosed(toks[ix])}))

MarkRange(toks, range) ==
    [i \in DOMAIN toks |->
        IF i >= range.first /\ i < range.last THEN mark_known(toks[i]) ELSE toks[i]]

\* parse_title / parse_release_group / parse_episode_title on a found range:
\* [panic, tokens, results]
emit_range(toks, res, range, kind, keep) ==
    IF range.status = "Panic" THEN [panic |-> TRUE, tokens |-> toks, results |-> res]
    ELSE IF range.status = "None" THEN [panic |-> FALSE, tokens |-> toks, results |-> res]
    ELSE LET slice == RangeTokens(toks, range)
             value == combine_tokens(slice, keep)
         IN  IF value = <<>> \/ slice = <<>>
             THEN [panic |-> FALSE, tokens |-> toks, results |-> res]
             ELSE [panic |-> FALSE, tokens |-> MarkRange(toks, range),
                   results |-> Append(res, Element(kind, value, slice[1].position))]

parse_title(toks, res) == emit_range(toks, res, find_title(toks), "Title", FALSE)

is_unenclosed_open_bracket(t) == ~t.is_enclosed /\ tok_is_open_bracket(t)

\* get_last_index_for_release_group(tokens, first), first # 0
get_last_index_for_release_group(toks, first) ==
    LET open == find_prev_token(toks, first, {ix \in DOMAIN toks : is_unenclosed_open_bracket(toks[ix])})
        bracket == IF open = 0 THEN "None" ELSE opposite_bracket(toks[open].value[1])
        is_that_bracket(t) == tok_is_closed_bracket(t) /\ starts_with(t.value, <<bracket>>)
    IN  IF bracket # "None" THEN find_next_token(toks, first, TRUE, {ix \in DOMAIN toks : is_that_bracket(toks[ix])})
        ELSE find_next_token(toks, first, TRUE, {ix \in DOMAIN toks : tok_is_closed_bracket(toks[ix])})

is_enclosed_unidentified(t) == t.is_enclosed /\ ~is_identified(t)

is_enclosed_free(t) == t.is_enclosed /\ is_free(t)

\* the loop of find_release_group that skips brackets holding identified tokens:
\* <<first, last>> with 0 for None
RECURSIVE release_group_scan(_, _, _)
release_group_scan(toks, first, last) ==
    IF first = 0 \/ last = 0 THEN <<first, last>>
    ELSE IF \A j \in first..(last - 1) : ~is_identified(toks[j]) THEN <<first, last>>
    ELSE LET first2 == find_next_token(toks, last, TRUE, {ix \in DOMAIN toks : is_enclosed_free(toks[ix])})
         IN  release_group_scan(toks, first2,
                                IF first2 = 0 THEN 0
                                ELSE get_last_index_for_release_group(toks, first2))

is_free_not_delimiter(t) == is_free(t) /\ is_not_delimiter(t)

find_release_group(toks) ==
    LET first0 == find_next_token(toks, 1, FALSE, {ix \in DOMAIN toks : is_enclosed_unidentified(toks[ix])})
        last0 == IF first0 = 0 THEN 0 ELSE get_last_index_for_release_group(toks, first0)
        scan == release_group_scan(toks, first0, last0)
        \* Fall back to the last token before file extension
        idx == find_prev_token(toks, Len(toks) + 1, {ix \in DOMAIN toks : is_free_not_delimiter(toks[ix])})
        fallback == /\ idx # 0
                    /\ is_free(toks[idx])
                    /\ idx # 1
                    /\ tok_is_delimiter(toks[idx - 1])
                    /\ toks[idx - 1].value = <<"-">>
    IN  IF scan[1] = 0
        THEN IF fallback THEN MakeRange(idx, idx + 1) ELSE NoRange
        ELSE MakeRange(scan[1], IF scan[2] = 0 THEN Len(toks) + 1 ELSE scan[2])

parse_release_group(toks, res) ==
    emit_range(toks, res, find_release_group(toks), "ReleaseGroup", TRUE)

is_open_or_identified(t) == tok_is_open_bracket(t) \/ is_identified(t)

\* the corner-bracket fallback needs a non-ASCII bracket and finds none in the model
find_episode_title(toks) ==
    LET first == find_next_token(toks, 1, FALSE, {ix \in DOMAIN toks : is_free_unenclosed(toks[ix])})
        last == IF first = 0 THEN 0 ELSE find_next_token(toks, first, FALSE,
                {ix \in DOMAIN toks : is_open_or_identified(toks[ix])})
    IN  IF first = 0 THEN NoRange
        ELSE MakeRange(first, IF last = 0 THEN Len(toks) + 1 ELSE last)

parse_episode_title(toks, res) ==
    emit_range(toks, res, find_episode_title(toks), "EpisodeTitle", FALSE)

\* a faulty sort that puts an element before the earlier ones of its position
\* (C6 must tell it apart)
RECURSIVE sort_unstable_by_key(_)
sort_unstable_by_key(res) ==
    IF Len(res) <= 1 THEN res
    ELSE LET sorted == sort_unstable_by_key(SubSeq(res, 1, Len(res) - 1))
             e == res[Len(res)]
             n == Cardinality({i \in DOMAIN sorted : sorted[i].position < e.position})
         IN  SubSeq(sorted, 1, n) \o <<e>> \o SubSeq(sorted, n + 1, Len(sorted))

\* results.sort_by_key(|e| e.position): a stable insertion sort
RECURSIVE sort_by_key(_)
sort_by_key(res) ==
    IF Len(res) <= 1 THEN res
    ELSE LET sorted == sort_by_key(SubSeq(res, 1, Len(res) - 1))
             e == res[Len(res)]
             n == Cardinality({i \in DOMAIN sorted : sorted[i].position <= e.position})
         IN  SubSeq(sorted, 1, n) \o <<e>> \o SubSeq(sorted, n + 1, Len(sorted))

\* a faulty test that is satisfied by an element of any kind
has_kind_of_any(res, kind) == res # <<>>

has_kind(res, kind) == \E i \in DOMAIN res : res[i].kind = kind

----------------------------------------------------------------------------
(* Options, options.rs *)

OptionNames == {"parse_episode", "parse_episode_title", "parse_file_checksum",
                "parse_file_extension", "parse_release_group", "parse_season",
                "parse_title", "parse_video_resolution", "parse_year", "parse_date"}

\* Options::default(): everything enabled
DefaultOptions == [o \in OptionNames |-> TRUE]

\* the builder methods: one flag toggled off
Without(o) == [DefaultOptions EXCEPT ![o] = FALSE]

OptionChoices ==
    {DefaultOptions, [o \in OptionNames |-> FALSE]} \cup {Without(o) : o \in OptionNames}

----------------------------------------------------------------------------
(* The inputs *)

ShortInputs == UNION {[1..n -> Alphabet] : n \in 0..MaxLen}

\* file names that exercise the longer patterns of the rules
SampleFileNames ==
    {
      \* 720
      <<"7", "2", "0">>,
      \* x_1080p_OVA
      <<"x", "_", "1", "0", "8", "0", "p", "_", "O", "V", "A">>,
      \* x_OVA
      <<"x", "_", "O", "V", "A">>,
      \* [x][x 720p x]
      <<"[", "x", "]", "[", "x", " ", "7", "2", "0", "p", " ", "x", "]">>,
      \* 1.2.3
      <<"1", ".", "2", ".", "3">>,
      \* 1.5
      <<"1", ".", "5">>,
      \* x_1a
      <<"x", "_", "1", "a">>,
      \* x_12345
      <<"x", "_", "1", "2", "3", "4", "5">>,
      \* #2-1
      <<"#", "2", "-", "1">>,
      \* #1-2
      <<"#", "1", "-", "2">>,
      \* S1E5-3
      <<"S", "1", "E", "5", "-", "3">>,
      \* 1x2-1
      <<"1", "x", "2", "-", "1">>,
      \* x_2-1
      <<"x", "_", "2", "-", "1">>,
      \* x_1-2
      <<"x", "_", "1", "-", "2">>,
      \* Show_Name_-_01
      <<"S", "h", "o", "w", "_", "N", "a", "m", "e", "_", "-", "_", "0", "1">>,
      \* Season_II
      <<"S", "e", "a", "s", "o", "n", "_", "I", "I">>,
      \* x_01_(176)
      <<"x", "_", "0", "1", "_", "(", "1", "7", "6", ")">>,
      \* [x]b]
      <<"[", "x", "]", "b", "]">>,
      \* x_1_of_2
      <<"x", "_", "1", "_", "o", "f", "_", "2">>,
      \* vol.2-1
      <<"v", "o", "l", ".", "2", "-", "1">>,
      \* E07.5
      <<"E", "0", "7", ".", "5">>,
      \* [Group]_Show_-_S02E05-E06v2_[720p].mkv
      <<"[", "G", "r", "o", "u", "p", "]", "_", "S", "h", "o", "w", "_", "-", "_", "S", "0", "2", "E", "0", "5", "-", "E", "0", "6", "v", "2", "_", "[", "7", "2", "0", "p", "]", ".", "m", "k", "v">>,
      \* [1950]
      <<"[", "1", "9", "5", "0", "]">>,
      \* [2050]
      <<"[", "2", "0", "5", "0", "]">>,
      \* [1949]
      <<"[", "1", "9", "4", "9", "]">>,
      \* [2051]
      <<"[", "2", "0", "5", "1", "]">>,
      \* [2000][2001]
      <<"[", "2", "0", "0", "0", "]", "[", "2", "0", "0", "1", "]">>,
      \* [1234ABCD]
      <<"[", "1", "2", "3", "4", "A", "B", "C", "D", "]">>,
      \* x_12345678_abcdef12
      <<"x", "_", "1", "2", "3", "4", "5", "6", "7", "8", "_", "a", "b", "c", "d", "e", "f", "1", "2">>,
      \* x_1234567_abcdefg1
      <<"x", "_", "1", "2", "3", "4", "5", "6", "7", "_", "a", "b", "c", "d", "e", "f", "g", "1">>,
      \* ED2_dts-esx
      <<"E", "D", "2", "_", "d", "t", "s", "-", "e", "s", "x">>,
      \* 720px
      <<"7", "2", "0", "p", "x">>,
      \* eps1
      <<"e", "p", "s", "1">>,
      \* 07.5_E01
      <<"0", "7", ".", "5", "_", "E", "0", "1">>,
      \* OVA_2_E01
      <<"O", "V", "A", "_", "2", "_", "E", "0", "1">>,
      \* x_1_of_2_[y][3_of_4]
      <<"x", "_", "1", "_", "o", "f", "_", "2", "_", "[", "y", "]", "[", "3", "_", "o", "f", "_", "4", "]">>,
      \* x_01_(176_y)
      <<"x", "_", "0", "1", "_", "(", "1", "7", "6", "_", "y", ")">>,
      \* [g]x_1(2)y_3(4)
      <<"[", "g", "]", "x", "_", "1", "(", "2", ")", "y", "_", "3", "(", "4", ")">>,
      \* x_176_(01)
      <<"x", "_", "1", "7", "6", "_", "(", "0", "1", ")">>,
      \* x_5_(05)
      <<"x", "_", "5", "_", "(", "0", "5", ")">>,
      \* x_1_2
      <<"x", "_", "1", "_", "2">>,
      \* x_720_1080
      <<"x", "_", "7", "2", "0", "_", "1", "0", "8", "0">>,
      \* x_720p_1080
      <<"x", "_", "7", "2", "0", "p", "_", "1", "0", "8", "0">>,
      \* x_1920x1080_720
      <<"x", "_", "1", "9", "2", "0", "x", "1", "0", "8", "0", "_", "7", "2", "0">>,
      \* OVA_[OVA]_EP_1
      <<"O", "V", "A", "_", "[", "O", "V", "A", "]", "_", "E", "P", "_", "1">>,
      \* x[(y)]
      <<"x", "[", "(", "y", ")", "]">>,
      \* x[(y)
      <<"x", "[", "(", "y", ")">>,
      \* a[x_720p
      <<"a", "[", "x", "_", "7", "2", "0", "p">>,
      \* a.b_c
      <<"a", ".", "b", "_", "c">>,
      \* a,b&c
      <<"a", ",", "b", "&", "c">>,
      \* a+b
      <<"a", "+", "b">>,
      \* a+b+c
      <<"a", "+", "b", "+", "c">>,
      \* _a b_
      <<"_", "a", " ", "b", "_">>,
      \* a_-_
      <<"a", "_", "-", "_">>,
      \* a b.c-d
      <<"a", " ", "b", ".", "c", "-", "d">>
    }

Inputs == ShortInputs \cup SampleFileNames

----------------------------------------------------------------------------
(* The state machine of lib::parse_with_options *)

Init ==
    /\ input \in Inputs
    /\ overflow_checks \in BOOLEAN
    /\ options \in OptionChoices
    /\ pc = "tokenize"
    /\ cursor = 0
    /\ bracket_level = 0
    /\ tokens = <<>>
    /\ results = <<>>

\* self.into_iter().collect(): one TokenIterator::next per step
NextToken ==
    /\ pc = "tokenize"
    /\ \E r \in {TokenIterator_next(input, cursor, bracket_level, overflow_checks)} :
           /\ pc' = CASE r.status = "Some" -> "tokenize"
                      [] r.status = "None" -> "fuse"
                      [] OTHER -> "panic"
           /\ cursor' = r.cursor
           /\ bracket_level' = r.bracket_level
           /\ tokens' = IF r.status = "Some" THEN Append(tokens, r.token) ELSE tokens
    /\ UNCHANGED <<input, overflow_checks, options, results>>

\* the fusion pass, retain and position assignment of Tokenizer::tokens
FuseTokens ==
    /\ pc = "fuse"
    /\ \E r \in {Tokenizer_tokens(tokens, input, overflow_checks)} :
           /\ pc' = IF r.panic THEN "panic" ELSE "file_extension"
           /\ tokens' = r.tokens
    /\ UNCHANGED <<input, overflow_checks, cursor, bracket_level, options, results>>

\* one rule of parser::parse_with_options: from stage `at` to stage `to`, the
\* rule's outcome r applied when its option is enabled
Rule(at, to, enabled, r) ==
    /\ pc = at
    /\ pc' = to
    /\ tokens' = IF enabled THEN r.tokens ELSE tokens
    /\ results' = IF enabled THEN r.results ELSE results
    /\ UNCHANGED <<input, overflow_checks, cursor, bracket_level, options>>

ParseFileExtension ==
    Rule("file_extension", "keywords", options["parse_file_extension"],
         parse_file_extension(tokens, results))

ParseKeywords ==
    Rule("keywords", "file_checksum", TRUE, parse_keywords(tokens, options, results))

ParseFileChecksum ==
    Rule("file_checksum", "video_resolution", options["parse_file_checksum"],
         parse_file_checksum(tokens, results))

ParseVideoResolution ==
    Rule("video_resolution", "year", options["parse_video_resolution"],
         parse_video_resolution(tokens, results))

ParseYear ==
    Rule("year", "season", options["parse_year"], parse_year(tokens, results))

ParseSeason ==
    Rule("season", "volume", options["parse_season"], parse_season(tokens, results))

ParseVolume ==
    Rule("volume", "episode", options["parse_episode"], parse_volume(tokens, results))

ParseEpisode ==
    Rule("episode", "title", options["parse_episode"],
         parse_episode(tokens, results, "Episode"))

ParseTitle ==
    /\ pc = "title"
    /\ \E r \in {parse_title(tokens, results)}, enabled \in {options["parse_title"]} :
           /\ pc' = IF enabled /\ r.panic THEN "panic" ELSE "release_group"
           /\ tokens' = IF enabled THEN r.tokens ELSE tokens
           /\ results' = IF enabled THEN r.results ELSE results
    /\ UNCHANGED <<input, overflow_checks, cursor, bracket_level, options>>

\* the release group rule, then `let has_episode = ...`
ParseReleaseGroup ==
    /\ pc = "release_group"
    /\ \E r \in {parse_release_group(tokens, results)},
          enabled \in {options["parse_release_group"] /\ ~has_kind(results, "ReleaseGroup")} :
           /\ tokens' = IF enabled THEN r.tokens ELSE tokens
           /\ results' = IF enabled THEN r.results ELSE results
           /\ pc' = IF has_kind(results', "Episode") THEN "episode_title" ELSE "sort"
    /\ UNCHANGED <<input, overflow_checks, cursor, bracket_level, options>>

ParseEpisodeTitle ==
    Rule("episode_title", "episode_alt", options["parse_episode_title"],
         parse_episode_title(tokens, results))

ParseEpisodeAlt ==
    Rule("episode_alt", "sort", options["parse_episode"],
         parse_episode(tokens, results, "EpisodeAlt"))

\* results.sort_by_key(|e| e.position); results
SortResults ==
    /\ pc = "sort"
    /\ pc' = "done"
    /\ results' = sort_by_key(results)
    /\ UNCHANGED <<input, overflow_checks, cursor, bracket_level, tokens, options>>

Next ==
    \/ NextToken
    \/ FuseTokens
    \/ ParseFileExtension
    \/ ParseKeywords
    \/ ParseFileChecksum
    \/ ParseVideoResolution
    \/ ParseYear
    \/ ParseSeason
    \/ ParseVolume
    \/ ParseEpisode
    \/ ParseTitle
    \/ ParseReleaseGroup
    \/ ParseEpisodeTitle
    \/ ParseEpisodeAlt
    \/ SortResults

Spec == Init /\ [][Next]_vars

----------------------------------------------------------------------------
(* Properties *)

Finished == pc = "done"

\* the token an element was taken from
SourceToken(e) == tokens[e.position + 1]

\* C1: parsing is total: whatever the input (empty, unbalanced brackets,
\* a leading or trailing '.', '-', '&' or '+'), parse and parse_with_options
\* return a list of elements and never panic.
C1_NeverPanics == pc # "panic"

\* the option that gates an element kind (none for the keyword kinds)
GatingOption(kind) ==
    CASE kind = "Season" -> "parse_season"
      [] kind \in {"Episode", "EpisodeAlt", "Volume"} -> "parse_episode"
      [] kind = "EpisodeTitle" -> "parse_episode_title"
      [] kind = "FileChecksum" -> "parse_file_checksum"
      [] kind = "FileExtension" -> "parse_file_extension"
      [] kind = "ReleaseGroup" -> "parse_release_group"
      [] kind = "Title" -> "parse_title"
      [] kind = "VideoResolution" -> "parse_video_resolution"
      [] kind = "Year" -> "parse_year"
      [] OTHER -> "none"

\* C2: a disabled option guarantees that no element of the kinds it gates
\* is in the output (parse_season off: no Season; parse_episode off: no
\* Episode, EpisodeAlt or Volume; and so on for the other options).
C2_DisabledOptionEmitsNothing ==
    Finished =>
        \A i \in DOMAIN results :
            GatingOption(results[i].kind) # "none" => options[GatingOption(results[i].kind)]

\* the element was emitted by parse_keywords from an ambiguous keyword outside brackets
FromUnmarkedKeyword(e) ==
    LET t == SourceToken(e)
    IN  /\ t.keyword # NoKeyword
        /\ is_ambiguous(t.keyword)
        /\ ~t.is_enclosed
        /\ e.kind = keyword_kind_to_element_kind(t.keyword.kind)

\* the element is the last-resort resolution taken from a bare 720 or 1080
FromBareResolution(e) ==
    /\ e.kind = "VideoResolution"
    /\ is_plain_resolution_number(SourceToken(e))

\* C3 (as claimed): when parsing finishes, the token at every element's position
\* is identified (unknown = false).
C3_SourceTokenIdentified ==
    Finished => \A i \in DOMAIN results : is_identified(SourceToken(results[i]))

\* C3 (amended): when parsing finishes, the token at every element's position
\* is identified, unless the element comes from an ambiguous keyword outside
\* brackets or is the last-resort VideoResolution of a bare 720 / 1080 number.
C3_SourceTokenIdentifiedUnlessLeftOpen ==
    Finished =>
        \A i \in DOMAIN results :
            \/ is_identified(SourceToken(results[i]))
            \/ FromUnmarkedKeyword(results[i])
            \/ FromBareResolution(results[i])

C3_Witness ==
    /\ Finished
    /\ \E i \in DOMAIN results : is_identified(SourceToken(results[i]))
    /\ \E i \in DOMAIN results :
        /\ ~is_identified(SourceToken(results[i]))
        /\ (FromUnmarkedKeyword(results[i]) \/ FromBareResolution(results[i]))

----------------------------------------------------------------------------

RangeKinds == {"Title", "ReleaseGroup", "EpisodeTitle"}

\* the least token index (1-based) at which the tokens from the element's
\* position on combine to its value, 0 when there is none
SliceEnd(e) ==
    LET p == e.position + 1
        keep == e.kind = "ReleaseGroup"
        Q == {q \in p..Len(tokens) : combine_tokens(SubSeq(tokens, p, q), keep) = e.value}
    IN  IF Q = {} THEN 0 ELSE MinOf(Q)

\* the positions of the tokens an element is made of: its source token, and for
\* a Title, ReleaseGroup or EpisodeTitle the tokens of its combined slice
ClaimedPositions(e) ==
    IF e.kind \in RangeKinds /\ SliceEnd(e) # 0
    THEN {q - 1 : q \in (e.position + 1)..SliceEnd(e)}
    ELSE {e.position}

\* C4 (as claimed): every token is claimed by at most one element: no token is the
\* source token of two output elements, and no token inside the combined slice
\* of a Title, ReleaseGroup or EpisodeTitle is the source of another element.
C4_TokenClaimedOnce ==
    Finished =>
        \A i, j \in DOMAIN results :
            i # j => results[j].position \notin ClaimedPositions(results[i])

\* C4 (amended): rules skip identified tokens: whenever a rule appends an
\* element, the token at that element's position was still unknown when the
\* rule started (one token may yield several elements).
C4_RulesClaimUnknownTokens ==
    [][\A i \in (Len(results) + 1)..Len(results') :
            tokens[results'[i].position + 1].unknown]_vars

\* one token is the source of two elements of the finished output
C4_Witness ==
    /\ Finished
    /\ \E i, j \in DOMAIN results :
        i # j /\ results[i].position = results[j].position

----------------------------------------------------------------------------

\* the digit strings of the ordinal and Roman-numeral lookup tables
LookupDigits == {<<d>> : d \in Digit \ {"0"}}

\* v is a slice of the input with its leading 'v' / 'V' stripped
IsVersionStrippedSlice(v) ==
    IsSliceOf(<<"v">> \o v, input) \/ IsSliceOf(<<"V">> \o v, input)

\* v is a slice of the input in which some delimiter characters read as spaces
IsSpacedSliceOf(v, t) ==
    \E a \in 0..Len(t) :
        /\ a + Len(v) <= Len(t)
        /\ \A k \in 1..Len(v) :
            v[k] = t[a + k] \/ (v[k] = " " /\ is_delimiter(t[a + k]))

VerbatimValue(e) ==
    \/ IsSliceOf(e.value, input)
    \/ IsVersionStrippedSlice(e.value)
    \/ e.value \in LookupDigits

\* C5 (as claimed): every element's value is a verbatim contiguous slice of the
\* input, such a slice with its 'v'/'V' prefix stripped, or a digit string of
\* the ordinal / Roman-numeral lookup tables.
C5_ValueIsVerbatim == \A i \in DOMAIN results : VerbatimValue(results[i])

\* C5 (amended): every element's value is a verbatim slice of the input, such a
\* slice with its 'v'/'V' prefix stripped, a digit string of the lookup tables,
\* or, for a Title or EpisodeTitle, a slice of the input in which delimiter
\* characters are replaced by single spaces.
C5_ValueIsVerbatimOrSpaced ==
    \A i \in DOMAIN results :
        \/ VerbatimValue(results[i])
        \/ /\ results[i].kind \in {"Title", "EpisodeTitle"}
           /\ IsSpacedSliceOf(results[i].value, input)

\* a title whose delimiters were turned into spaces, next to a verbatim value
C5_Witness ==
    /\ Finished
    /\ \E i \in DOMAIN results :
        results[i].kind = "Title" /\ ~IsSliceOf(results[i].value, input)
    /\ \E i \in DOMAIN results :
        results[i].kind # "Title" /\ IsSliceOf(results[i].value, input)

----------------------------------------------------------------------------

IsSortedByPosition(res) ==
    \A i, j \in DOMAIN res : i < j => res[i].position <= res[j].position

\* the elements of res at position p, in their order in res
AtPosition(res, p) ==
    LET at(e) == e.position = p
    IN  SelectSeq(res, at)

Positions(res) == {res[i].position : i \in DOMAIN res}

\* C6: the returned list is ordered by non-decreasing position, and elements of
\* equal position keep the order in which the rules appended them.
C6_StableSortedOutput ==
    [][pc' = "done" =>
        /\ IsSortedByPosition(results')
        /\ Len(results') = Len(results)
        /\ \A p \in Positions(results) \cup Positions(results') :
            AtPosition(results', p) = AtPosition(results, p)]_vars

\* a finished output that the sort had to reorder (the title was appended after
\* the episode but comes first) and that holds two elements of one position
C6_Witness ==
    /\ Finished
    /\ Len(results) >= 3
    /\ results[1].kind = "Title"
    /\ \E i \in DOMAIN results : results[i].kind = "Episode" /\ results[i].position > 0
    /\ \E i, j \in DOMAIN results :
        /\ i < j
        /\ results[i].position = results[j].position
        /\ results[i].kind # results[j].kind

----------------------------------------------------------------------------

\* opening minus closing brackets among the input characters a..b (1-based)
Balance(a, b) ==
    Cardinality({k \in a..b : is_open_bracket(input[k])})
        - Cardinality({k \in a..b : is_closed_bracket(input[k])})

\* the bracket opened at i is closed at j (bracket types are not compared)
IsMatchedPair(i, j) ==
    /\ is_open_bracket(input[i])
    /\ is_closed_bracket(input[j])
    /\ Balance(i, j) = 0
    /\ \A k \in i..(j - 1) : Balance(i, k) > 0

\* the token's span lies strictly inside a matched bracket pair of the input
InsideMatchedPair(t) ==
    \E i, j \in DOMAIN input :
        /\ i < j
        /\ IsMatchedPair(i, j)
        /\ i < t.start + 1
        /\ t.start + Len(t.value) < j

DepthBefore(t) == Balance(1, t.start)

----------------------------------------------------------------------------

KindsAndValues(toks) == [i \in DOMAIN toks |-> <<toks[i].kind, toks[i].value>>]

\* the token list as Tokenizer::tokens returned it, before any rule ran
FusionOutput == pc = "file_extension"

\* C8: the fusion pass is idempotent: run again on the token list it produced,
\* it yields the same kinds and values, also for chains such as three numbers
\* separated by two fusable delimiters.
C8_FusionIdempotent ==
    FusionOutput =>
        LET again == Tokenizer_tokens(tokens, input, overflow_checks)
        IN  ~again.panic /\ KindsAndValues(again.tokens) = KindsAndValues(tokens)

----------------------------------------------------------------------------

IsEpisode(e) == e.kind \in {"Episode", "EpisodeAlt"}

\* C9 (as claimed): every Episode or EpisodeAlt value is a valid episode number:
\* non-empty, at most 4 characters, all ASCII digits.
C9_EpisodeValueValid ==
    \A i \in DOMAIN results :
        IsEpisode(results[i]) => is_valid_episode_number(results[i].value)

PartialSuffixes == {"A", "B", "C", "a", "b", "c"}

\* digits, or at most 4 digits followed by ".5" or by a partial-episode letter
IsEpisodeValue(v) ==
    LET n == digit_run(v)
        rest == Tail1(v, n)
    IN  /\ n >= 1
        /\ \/ rest = <<>>
           \/ /\ n <= MaxEpisodeDigits
              /\ (rest = <<".", "5">> \/ (Len(rest) = 1 /\ rest[1] \in PartialSuffixes))

\* C9 (amended): every Episode or EpisodeAlt value is a non-empty string of
\* digits, of any length when it is a whole number token, or of at most 4
\* digits followed by ".5" or by one letter of A, B, C, a, b, c.
C9_EpisodeValueShape ==
    \A i \in DOMAIN results : IsEpisode(results[i]) => IsEpisodeValue(results[i].value)

\* a finished output with an episode that is no valid episode number (fractional,
\* partial, or longer than 4 digits)
C9_Witness ==
    /\ Finished
    /\ \E i \in DOMAIN results :
        IsEpisode(results[i]) /\ ~is_valid_episode_number(results[i].value)

----------------------------------------------------------------------------

RangedKinds == {"Episode", "EpisodeAlt", "Volume"}

\* C10: range rules require low < high: when one token yields two episode (or
\* volume) elements as a range (multi-episode range, season and episode with a
\* second episode, hash-prefixed range), the first number is strictly less than
\* the second; an inverted or equal range yields nothing.
C10_RangesAscend ==
    \A i, j \in DOMAIN results :
        (/\ i < j
         /\ results[i].kind \in RangedKinds
         /\ results[i].kind = results[j].kind
         /\ results[i].position = results[j].position
         /\ all_digits(results[i].value)
         /\ all_digits(results[j].value))
        => DecimalValue(results[i].value) < DecimalValue(results[j].value)


----------------------------------------------------------------------------
(* C11: years *)

\* the value is a decimal numeral whose integer lies in 1950 .. 2050
InYearRange(value) ==
    value # <<>> /\ all_digits(value) /\ DecimalValue(value) \in 1950..2050

\* the 1-based indices of the free Number tokens of a year's value that stand
\* between an open and a close bracket
TightYears(toks) ==
    {k \in 2..(Len(toks) - 1) :
        /\ tok_is_open_bracket(toks[k - 1])
        /\ tok_is_closed_bracket(toks[k + 1])
        /\ is_free(toks[k]) /\ is_number(toks[k])
        /\ InYearRange(toks[k].value)}

----------------------------------------------------------------------------
(* C12: file checksum *)

HexDigits == Digit \cup {"a", "b", "c", "d", "e", "f", "A", "B", "C", "D", "E", "F"}

\* the 1-based indices of the free tokens whose value is exactly 8 hex digits
ChecksumCandidates(toks) ==
    {k \in DOMAIN toks :
        /\ is_free(toks[k])
        /\ Len(toks[k].value) = 8
        /\ \A i \in 1..8 : toks[k].value[i] \in HexDigits}

\* C12: with parse_file_checksum enabled, when the checksum rule runs and a free
\* token of exactly 8 hex digits exists, the rule emits exactly one FileChecksum
\* element, taken from the rightmost such token, and marks that token known; when
\* none exists it emits nothing; and no other step emits a FileChecksum element
C12_ChecksumFromRightmost ==
    [][/\ (pc = "file_checksum" /\ options["parse_file_checksum"]) =>
            IF ChecksumCandidates(tokens) # {}
            THEN /\ results' =
                        Append(results,
                               Element("FileChecksum",
                                       tokens[MaxOf(ChecksumCandidates(tokens))].value,
                                       MaxOf(ChecksumCandidates(tokens)) - 1))
                 /\ is_identified(tokens'[MaxOf(ChecksumCandidates(tokens))])
                 /\ \A k \in DOMAIN tokens :
                        k # MaxOf(ChecksumCandidates(tokens)) => tokens'[k] = tokens[k]
            ELSE results' = results /\ tokens' = tokens
       /\ \A i \in (Len(results) + 1)..Len(results') :
            results'[i].kind = "FileChecksum" =>
                pc = "file_checksum" /\ options["parse_file_checksum"]]_vars

\* a finished output whose FileChecksum comes from the second of two candidates
C12_Witness ==
    /\ Finished
    /\ \E i \in DOMAIN results :
        /\ results[i].kind = "FileChecksum"
        /\ \E k \in 1..results[i].position :
            /\ Len(tokens[k].value) = 8
            /\ \A j \in 1..8 : tokens[k].value[j] \in HexDigits

----------------------------------------------------------------------------
(* C13: episode title and alternate episode *)

\* C13: every output list that holds an EpisodeTitle or an EpisodeAlt element
\* also holds at least one Episode element
C13_EpisodeTitleNeedsEpisode ==
    Finished =>
        ((\E i \in DOMAIN results : results[i].kind \in {"EpisodeTitle", "EpisodeAlt"})
            => \E i \in DOMAIN results : results[i].kind = "Episode")

\* a finished output with an episode title, and so with an episode
C13_Witness ==
    /\ Finished
    /\ \E i \in DOMAIN results : results[i].kind = "EpisodeTitle"
    /\ \E i \in DOMAIN results : results[i].kind = "Episode"

----------------------------------------------------------------------------
(* C14: an end-to-end scenario *)

\* [Group]_Show_-_S02E05-E06v2_[720p].mkv
GroupShowFileName ==
    <<"[", "G", "r", "o", "u", "p", "]", "_", "S", "h", "o", "w", "_", "-",
      "_", "S", "0", "2", "E", "0", "5", "-", "E", "0", "6", "v", "2", "_",
      "[", "7", "2", "0", "p", "]", ".", "m", "k", "v">>

\* the kinds and values of its expected output, in order
GroupShowElements ==
    << <<"ReleaseGroup", <<"G", "r", "o", "u", "p">>>>,
       <<"Title", <<"S", "h", "o", "w">>>>,
       <<"Season", <<"0", "2">>>>,
       <<"Episode", <<"0", "5">>>>,
       <<"Episode", <<"0", "6">>>>,
       <<"ReleaseVersion", <<"2">>>>,
       <<"VideoResolution", <<"7", "2", "0", "p">>>>,
       <<"FileExtension", <<"m", "k", "v">>>> >>

\* C14: parsing [Group]_Show_-_S02E05-E06v2_[720p].mkv with default options
\* leaves S02E05-E06v2 as one token after the fusion pass and returns, in position
\* order, ReleaseGroup=Group, Title=Show, Season=02, Episode=05, Episode=06,
\* ReleaseVersion=2, VideoResolution=720p, FileExtension=mkv
C14_GroupShowScenario ==
    (input = GroupShowFileName /\ options = DefaultOptions) =>
        /\ pc # "panic"
        /\ pc \notin {"tokenize", "fuse"} =>
            \E k \in DOMAIN tokens : tokens[k].value = <<"S", "0", "2", "E", "0", "5", "-", "E", "0", "6", "v", "2">>
        /\ Finished =>
            /\ [i \in DOMAIN results |-> <<results[i].kind, results[i].value>>]
                    = GroupShowElements
            /\ IsSortedByPosition(results)

\* the scenario has run to its end
C14_Witness ==
    Finished /\ input = GroupShowFileName /\ options = DefaultOptions /\ Len(results) = 8


----------------------------------------------------------------------------
(* C15: the token list the tokenizer returns *)

\* the tokenizer has returned its list
Tokenized == pc \notin {"tokenize", "fuse", "panic"}

\* C15: in the token list returned by the tokenizer (and used by every rule of
\* the parser) no token has kind Invalid and the token at index i has position i
C15_DensePositions ==
    Tokenized =>
        \A k \in DOMAIN tokens :
            tokens[k].kind # "Invalid" /\ tokens[k].position = k - 1

\* a returned list in which a token follows a fused one, whose neighbours were
\* dropped
C15_Witness ==
    /\ pc = "file_extension"
    /\ \E k \in DOMAIN tokens :
        /\ k < Len(tokens)
        /\ tokens[k].kind = "Text"
        /\ Len(tokens[k].value) >= 3
        /\ tokens[k].value[2] \in FusableStart

----------------------------------------------------------------------------
(* C16: the tokens partition the input *)

\* the values of the tokens from index k on, one after the other
RECURSIVE ValuesFrom(_, _)
ValuesFrom(toks, k) ==
    IF k > Len(toks) THEN <<>> ELSE toks[k].value \o ValuesFrom(toks, k + 1)

\* C16: when the iterator has produced its tokens (before the fusion pass) and
\* in the list the tokenizer returns (after it), every token value is non-empty
\* and the token values, one after the other in list order, are the input
C16_TokensPartitionInput ==
    pc \notin {"tokenize", "panic"} =>
        /\ \A k \in DOMAIN tokens : tokens[k].value # <<>>
        /\ ValuesFrom(tokens, 1) = input

\* a returned list of several tokens, one of them fused from three
C16_Witness ==
    /\ Tokenized
    /\ Len(tokens) > 1
    /\ \E k \in DOMAIN tokens :
        /\ tokens[k].kind = "Text"
        /\ \E i \in 2..(Len(tokens[k].value) - 1) : is_delimiter(tokens[k].value[i])

----------------------------------------------------------------------------
(* C17: bracket depth *)

\* C17: with the depth counted up on every open bracket and down on every close
\* bracket, a delimiter, keyword, text or number token is enclosed iff the depth
\* is at least 1 where it is read, an open bracket iff the depth after its
\* increment is at least 2, and a close bracket iff the depth after its decrement
\* is at least 1
C17_EnclosedByDepth ==
    \A i \in DOMAIN tokens :
        tokens[i].is_enclosed <=>
            CASE tok_is_open_bracket(tokens[i]) -> DepthBefore(tokens[i]) + 1 >= 2
              [] tok_is_closed_bracket(tokens[i]) -> DepthBefore(tokens[i]) - 1 >= 1
              [] OTHER -> DepthBefore(tokens[i]) >= 1

\* the same when no close bracket comes without an open one before it
C17_EnclosedByDepthWhenBalanced ==
    (\A k \in DOMAIN input : Balance(1, k) >= 0) => C17_EnclosedByDepth

----------------------------------------------------------------------------
(* C18: keyword tokens of the tokenizer *)

\* the lengths of the prefixes of rest that are catalogue keys, case ignored
KeyLengths(rest) == {n \in 1..Len(rest) : Lower(SubSeq(rest, 1, n)) \in KeywordKeys}

\* the length of the longest catalogue key that is a prefix of rest, 0 for none
LongestKey(rest) == IF KeyLengths(rest) = {} THEN 0 ELSE MaxOf(KeyLengths(rest))

\* the catalogue entry <<key, kind, flags>> of a key
EntryOf(key) == CHOOSE e \in KeywordTable : e[1] = Lower(key)

UnboundedFlag(flags) == (flags \div UNBOUNDED) % 2 = 1

AmbiguousFlag(flags) == (flags \div AMBIGUOUS) % 2 = 1

\* what may stand right behind a keyword with these flags
MayFollow(flags, after) ==
    \/ UnboundedFlag(flags)
    \/ after = <<>>
    \/ is_open_bracket(after[1]) \/ is_closed_bracket(after[1]) \/ is_delimiter(after[1])
    \/ AmbiguousFlag(flags) /\ after[1] \in Digit

\* the longest run of characters at the front of rest that are no bracket and no delimiter
TextRun(rest) ==
    MaxOf({n \in 0..Len(rest) :
              \A i \in 1..n : ~is_open_bracket(rest[i]) /\ ~is_closed_bracket(rest[i])
                              /\ ~is_delimiter(rest[i])})

\* the token t emitted at the front of rest with n = LongestKey(rest)
KeywordRule(t, rest, n) ==
    /\ t.kind = "Keyword" =>
          /\ n > 0
          /\ t.value = SubSeq(rest, 1, n)
          /\ t.keyword.kind = EntryOf(t.value)[2]
          /\ MayFollow(EntryOf(t.value)[3], Tail1(rest, n))
    /\ (/\ TextRun(rest) > 0
        /\ n > 0
        /\ ~MayFollow(EntryOf(SubSeq(rest, 1, n))[3], Tail1(rest, n))) =>
          /\ t.kind \in {"Text", "Number"}
          /\ t.value = SubSeq(rest, 1, TextRun(rest))

\* C18: every Keyword token the tokenizer emits is the longest catalogue key
\* (case ignored) at the front of the remaining input, and unless the keyword
\* is unbounded the next character is the end of the input, a bracket, a
\* delimiter or, for an ambiguous keyword, an ASCII digit; when the longest key
\* fails that test no shorter key is taken and the token is the text run
C18_KeywordBoundedness ==
    [][(pc = "tokenize" /\ Len(tokens') = Len(tokens) + 1) =>
           KeywordRule(tokens'[Len(tokens')], Tail1(input, cursor),
                       LongestKey(Tail1(input, cursor)))]_vars

\* "ED2_dts-esx" is tokenized: the ambiguous keyword ED stands before a digit,
\* and of dts-esx, whose longest key dts-es is followed by x, the shorter key
\* dts is not taken
C18_Witness ==
    /\ input = <<"E", "D", "2", "_", "d", "t", "s", "-", "e", "s", "x">>
    /\ pc = "fuse"
    /\ tokens[1].kind = "Keyword" /\ tokens[1].value = <<"E", "D">>
    /\ tokens[2].kind = "Number"
    /\ tokens[4].kind = "Text" /\ tokens[4].value = <<"d", "t", "s">>

----------------------------------------------------------------------------
(* C19: the order of the rules R0..R14 of parse_episode *)

\* the rules tried on one token inside the loop over the tokens (R8 needs the
\* character of the Japanese counter)
TokenRules == {2, 3, 4, 5, 6, 7, 9, 10}

\* the rules tried once on the whole list
ListRules == {0, 1, 11, 12, 13, 14}

\* can rule r of TokenRules fire on the token at k
CanFireAt(r, toks, res, kind, k) ==
    /\ is_free(toks[k])
    /\ CASE r = 2 -> episode_keyword_rule(toks, res, kind, k).fired
         [] r = 3 -> parse_multi_episode_range(toks, k, res, kind).fired
         [] r = 4 -> episode_prefix_regex(toks[k].value).ok
         [] r = 5 -> /\ season_and_episode_regex(toks[k].value).ok
                     /\ DecimalValue(season_and_episode_regex(toks[k].value).season) # 0
         [] r = 6 -> /\ parse_single_episode(toks[k].value).ok
                     /\ parse_single_episode(toks[k].value).suffix # <<>>
         [] r = 7 -> number_sign_episode_regex(toks[k].value).ok
         [] r = 9 -> /\ toks[k].value # <<>>
                     /\ toks[k].value[Len(toks[k].value)] \in {"A", "B", "C", "a", "b", "c"}
                     /\ is_valid_episode_number(SubSeq(toks[k].value, 1, Len(toks[k].value) - 1))
         [] r = 10 -> /\ split_once(toks[k].value, {"."}).found
                      /\ split_once(toks[k].value, {"."}).last = <<"5">>
                      /\ is_valid_episode_number(split_once(toks[k].value, {"."}).first)

\* what rule r yields, on the token at k for a rule of TokenRules
RuleOutcome(r, toks, res, kind, k) ==
    CASE r = 0 -> parse_equivalent_numbers(toks, res)
      [] r = 1 -> parse_number_in_number_episode(toks, res)
      [] r = 2 -> episode_keyword_rule(toks, res, kind, k)
      [] r = 3 -> parse_multi_episode_range(toks, k, res, kind)
      [] r \in 4..10 -> episode_value_rules(toks, res, kind, k)
      [] r = 11 -> parse_type_and_episode(toks, res, kind)
      [] r = 12 -> parse_separated_number(toks, res, kind)
      [] r = 13 -> parse_isolated_number(toks, res, kind)
      [] r = 14 -> parse_last_number(toks, res, kind)

\* can rule r of ListRules fire on the list
CanFireList(r, toks, res, kind) ==
    /\ r = 0 => kind = "Episode"
    /\ RuleOutcome(r, toks, res, kind, 0).fired

\* the rules that can fire on some token of the list
RulesThatCanFire(toks, res, kind) ==
    {r \in ListRules : CanFireList(r, toks, res, kind)}
    \cup {r \in TokenRules : \E k \in DOMAIN toks : CanFireAt(r, toks, res, kind, k)}

\* the tokens on which some rule of TokenRules can fire
TokensThatFire(toks, res, kind) ==
    {k \in DOMAIN toks : \E r \in TokenRules : CanFireAt(r, toks, res, kind, k)}

\* the lowest rule of TokenRules that can fire on the token at k
LowestRuleAt(toks, res, kind, k) ==
    MinOf({r \in TokenRules : CanFireAt(r, toks, res, kind, k)})

\* R0 and R1 on the list, then the leftmost token on which one of R2..R10
\* fires with its lowest rule, then R11..R14 on the list
InCodeOrder(toks, res, kind) ==
    IF CanFireList(0, toks, res, kind) THEN RuleOutcome(0, toks, res, kind, 0)
    ELSE IF CanFireList(1, toks, res, kind) THEN RuleOutcome(1, toks, res, kind, 0)
    ELSE IF TokensThatFire(toks, res, kind) # {}
    THEN RuleOutcome(LowestRuleAt(toks, res, kind, MinOf(TokensThatFire(toks, res, kind))),
                     toks, res, kind, MinOf(TokensThatFire(toks, res, kind)))
    ELSE IF {r \in 11..14 : CanFireList(r, toks, res, kind)} # {}
    THEN RuleOutcome(MinOf({r \in 11..14 : CanFireList(r, toks, res, kind)}),
                     toks, res, kind, 0)
    ELSE NotFired(toks, res)

\* the lowest rule that can fire anywhere yields the result of this step
LowestRuleYields(toks, res, kind, lowest) ==
    IF lowest \in ListRules
    THEN Out(tokens', results') = Out(RuleOutcome(lowest, toks, res, kind, 0).tokens,
                                      RuleOutcome(lowest, toks, res, kind, 0).results)
    ELSE \E k \in {i \in DOMAIN toks : CanFireAt(lowest, toks, res, kind, i)} :
             Out(tokens', results') = Out(RuleOutcome(lowest, toks, res, kind, k).tokens,
                                          RuleOutcome(lowest, toks, res, kind, k).results)

\* the kind an invocation of the episode rule at this stage produces
EpisodeKindAt(stage) == IF stage = "episode" THEN "Episode" ELSE "EpisodeAlt"

\* C19: within one invocation of the episode rule the lowest-numbered rule of
\* R0..R14 that can fire on any token of the list determines the result,
\* whichever token comes first in the input
C19_LowestRuleWins ==
    [][(pc \in {"episode", "episode_alt"} /\ options["parse_episode"]
        /\ RulesThatCanFire(tokens, results, EpisodeKindAt(pc)) # {}) =>
           LowestRuleYields(tokens, results, EpisodeKindAt(pc),
                            MinOf(RulesThatCanFire(tokens, results, EpisodeKindAt(pc))))]_vars

\* C19 as the code has it: R0 and R1 are tried on the whole list, then the free
\* tokens are visited from left to right and R2..R10 are tried in that order
\* on each, so the leftmost token on which one of them fires determines the
\* result by its lowest rule, then R11..R14 are tried in order on the whole
\* list; the first that fires determines the result
C19_RulesInCodeOrder ==
    [][(pc \in {"episode", "episode_alt"} /\ options["parse_episode"]) =>
           Out(tokens', results') =
               Out(InCodeOrder(tokens, results, EpisodeKindAt(pc)).tokens,
                   InCodeOrder(tokens, results, EpisodeKindAt(pc)).results)]_vars

\* "07.5_E01" after the first invocation: the fractional token on the left gave
\* the episode by R10 and the token E01, on which R4 can fire, is still free
C19_Witness ==
    /\ input = <<"0", "7", ".", "5", "_", "E", "0", "1">>
    /\ pc = "title"
    /\ options["parse_episode"]
    /\ \E i \in DOMAIN results :
           results[i] = Element("Episode", <<"0", "7", ".", "5">>, 0)
    /\ CanFireAt(4, tokens, results, "Episode", 3)

----------------------------------------------------------------------------
(* C20: the second invocation of parse_episode *)

\* C20: every episode-number element that the second invocation of the episode
\* rule appends (the one after title, release group and episode title) has
\* kind EpisodeAlt, never Episode
C20_SecondCallEmitsEpisodeAlt ==
    [][pc = "episode_alt" =>
           \A i \in (Len(results) + 1)..Len(results') :
               results'[i].kind # "Episode"]_vars

----------------------------------------------------------------------------
(* C21: the equivalent-episode pair, R0 *)

\* the elements this step appends to results
NewElements == {results'[i] : i \in (Len(results) + 1)..Len(results')}

\* this step appends an Episode and an EpisodeAlt element at once, which among
\* the rules of parse_episode only R0 does
PairAppended ==
    /\ \E e \in NewElements : e.kind = "Episode"
    /\ \E e \in NewElements : e.kind = "EpisodeAlt"

\* the shape of (A, B) in toks: A is a free Number and a valid episode number,
\* is_token_isolated(A) = isolated, the next non-delimiter after A is a bracket
\* and the next non-delimiter after the bracket is B, a free isolated Number
\* that is a valid episode number
PairShape(toks, A, B, isolated) ==
    /\ is_free(toks[A]) /\ is_number(toks[A])
    /\ is_valid_episode_number(toks[A].value)
    /\ is_token_isolated(toks, A) = isolated
    /\ \E bracket \in (A + 1)..(B - 1) :
           /\ tok_is_bracket(toks[bracket])
           /\ \A j \in ((A + 1)..(B - 1)) \ {bracket} : tok_is_delimiter(toks[j])
    /\ is_free(toks[B]) /\ is_number(toks[B])
    /\ is_valid_episode_number(toks[B].value)
    /\ is_token_isolated(toks, B)

\* the step emits for the tokens A and B and for nothing else
PairEmitted(A, B) ==
    /\ {e.position : e \in NewElements} = {A - 1, B - 1}
    /\ Len(results') = Len(results) + 2

\* C21: the pair rule fires only for (A, B) with A a free isolated Number and
\* valid episode number, a bracket next after A, and B next after the bracket a
\* free isolated Number and valid episode number, and only in the invocation
\* that produces Episode
C21_PairOfIsolatedNumbers ==
    [][PairAppended =>
           /\ pc = "episode"
           /\ \E A \in DOMAIN tokens, B \in DOMAIN tokens :
                  PairShape(tokens, A, B, TRUE) /\ PairEmitted(A, B)]_vars

\* C21 as the code has it: A is a free Number and valid episode number that is
\* not isolated (`01 (176)`), the rest as stated
C21_PairOfOpenAndIsolatedNumber ==
    [][PairAppended =>
           /\ pc = "episode"
           /\ \E A \in DOMAIN tokens, B \in DOMAIN tokens :
                  PairShape(tokens, A, B, FALSE) /\ PairEmitted(A, B)]_vars

\* "x_01_(176)" after the first invocation: 01, which is not isolated, and the
\* isolated 176 gave the pair
C21_Witness ==
    /\ input = <<"x", "_", "0", "1", "_", "(", "1", "7", "6", ")">>
    /\ pc = "title"
    /\ Len(results) = 2
    /\ results[1] = Element("EpisodeAlt", <<"1", "7", "6">>, 5)
    /\ results[2] = Element("Episode", <<"0", "1">>, 2)
    /\ ~is_token_isolated(tokens, 3)
    /\ is_token_isolated(tokens, 6)

----------------------------------------------------------------------------
(* C22: what the equivalent-episode pair emits *)

\* the step marks the tokens A and B known and changes nothing else of the list
PairMarked(A, B) ==
    /\ Len(tokens') = Len(tokens)
    /\ tokens[A].unknown /\ tokens[B].unknown
    /\ ~tokens'[A].unknown /\ ~tokens'[B].unknown
    /\ \A k \in DOMAIN tokens :
           tokens'[k] = IF k \in {A, B} THEN [tokens[k] EXCEPT !.unknown = FALSE]
                        ELSE tokens[k]

\* the kind of the element for the number `value` of the pair, `other` being
\* the other number and `first` telling whether `value` comes first
PairKind(value, other, first) ==
    IF DecimalValue(value) < DecimalValue(other) THEN "Episode"
    ELSE IF DecimalValue(value) > DecimalValue(other) THEN "EpisodeAlt"
    ELSE IF first THEN "Episode" ELSE "EpisodeAlt"

\* C22: when the pair rule fires on the numbers A and B both tokens are marked
\* known and exactly two elements are emitted, Episode for the smaller number
\* and EpisodeAlt for the larger; of two equal numbers the first gets Episode
C22_PairKinds ==
    [][PairAppended =>
           \E A \in DOMAIN tokens, B \in DOMAIN tokens :
               /\ A < B
               /\ PairMarked(A, B)
               /\ Len(results') = Len(results) + 2
               /\ NewElements =
                      {Element(PairKind(tokens[A].value, tokens[B].value, TRUE),
                               tokens[A].value, A - 1),
                       Element(PairKind(tokens[B].value, tokens[A].value, FALSE),
                               tokens[B].value, B - 1)}]_vars

\* "x_5_(05)" after the first invocation: of the equal numbers 5 and 05 the
\* first is the Episode
C22_Witness ==
    /\ input = <<"x", "_", "5", "_", "(", "0", "5", ")">>
    /\ pc = "title"
    /\ Len(results) = 2
    /\ results[1] = Element("EpisodeAlt", <<"0", "5">>, 5)
    /\ results[2] = Element("Episode", <<"5">>, 2)
    /\ ~tokens[3].unknown /\ ~tokens[6].unknown

----------------------------------------------------------------------------
(* C23: the last-number heuristic, R14 *)

\* the previous non-delimiter token of the token at k, 0 for none
PreviousNonDelimiter(toks, k) ==
    IF {j \in 1..(k - 1) : ~tok_is_delimiter(toks[j])} = {} THEN 0
    ELSE MaxOf({j \in 1..(k - 1) : ~tok_is_delimiter(toks[j])})

\* a free token whose value is "movie" or "part", case ignored
MovieOrPart(t) ==
    is_free(t) /\ Lower(t.value) \in {<<"m", "o", "v", "i", "e">>, <<"p", "a", "r", "t">>}

\* the free, non-enclosed Number tokens that are not the first non-enclosed
\* non-delimiter token and do not follow "movie" or "part"
SurvivingCandidates(toks) ==
    {k \in DOMAIN toks :
        /\ is_free(toks[k]) /\ is_number(toks[k]) /\ ~toks[k].is_enclosed
        /\ \E j \in 1..(k - 1) : ~toks[j].is_enclosed /\ ~tok_is_delimiter(toks[j])
        /\ PreviousNonDelimiter(toks, k) # 0 => ~MovieOrPart(toks[PreviousNonDelimiter(toks, k)])}

\* the step emits one element of the kind for the token at k and marks it known
OneEmittedFor(k, kind) ==
    /\ results' = Append(results, Element(kind, tokens[k].value, k - 1))
    /\ tokens' = [tokens EXCEPT ![k].unknown = FALSE]

\* C23: when the episode rule comes to the last-number heuristic and a
\* candidate survives, the rightmost surviving candidate is accepted, marked
\* known and emitted, and exactly one element is emitted
C23_LastCandidateAccepted ==
    [][(/\ pc \in {"episode", "episode_alt"} /\ options["parse_episode"]
        /\ RulesThatCanFire(tokens, results, EpisodeKindAt(pc)) \cap 0..13 = {}
        /\ SurvivingCandidates(tokens) # {}) =>
           OneEmittedFor(MaxOf(SurvivingCandidates(tokens)), EpisodeKindAt(pc))]_vars

----------------------------------------------------------------------------
(* C24: the video resolution rule and its last resort *)

\* the free tokens the resolution regex matches
RegexResolutions(toks) ==
    {k \in DOMAIN toks : is_free(toks[k]) /\ is_video_resolution(toks[k].value)}

\* the free Number tokens equal to "1080" or "720"
PlainResolutions(toks) ==
    {k \in DOMAIN toks :
        /\ is_free(toks[k]) /\ is_number(toks[k])
        /\ toks[k].value \in {<<"1", "0", "8", "0">>, <<"7", "2", "0">>}}

HasVideoResolution(res) == \E i \in DOMAIN res : res[i].kind = "VideoResolution"

\* the elements this step appends are VideoResolution elements for exactly
\* the tokens of S, one each
ResolutionsAppendedFor(S) ==
    /\ Len(results') = Len(results) + Cardinality(S)
    /\ SubSeq(results', 1, Len(results)) = results
    /\ NewElements = {Element("VideoResolution", tokens[k].value, k - 1) : k \in S}

\* the step marks exactly the tokens of S known
MarkedExactly(S) ==
    tokens' = [k \in DOMAIN tokens |->
                  IF k \in S THEN [tokens[k] EXCEPT !.unknown = FALSE] ELSE tokens[k]]

\* C24: only if neither the keyword rule nor the resolution regex emitted a
\* VideoResolution, one is emitted for the first free Number token equal to
\* "1080" or "720", and that token is left unknown; the tokens the regex
\* matches are marked known
C24_ResolutionLastResort ==
    [][(pc = "video_resolution" /\ options["parse_video_resolution"]) =>
           /\ MarkedExactly(RegexResolutions(tokens))
           /\ IF /\ ~HasVideoResolution(results)
                 /\ RegexResolutions(tokens) = {}
                 /\ PlainResolutions(tokens) # {}
              THEN ResolutionsAppendedFor({MinOf(PlainResolutions(tokens))})
              ELSE ResolutionsAppendedFor(RegexResolutions(tokens))]_vars

\* "x_720_1080" at the end: the last resort took the 720, the first of the two
\* plain numbers, left it free, and the episode rule consumed the same token
C24_Witness ==
    /\ input = <<"x", "_", "7", "2", "0", "_", "1", "0", "8", "0">>
    /\ pc = "done"
    /\ \E i \in DOMAIN results :
           results[i] = Element("VideoResolution", <<"7", "2", "0">>, 2)
    /\ \E i \in DOMAIN results :
           results[i] = Element("Episode", <<"7", "2", "0">>, 2)
    /\ \A i \in DOMAIN results :
           results[i].kind = "VideoResolution" => results[i].position = 2

----------------------------------------------------------------------------
(* C25: what the keyword rule marks *)

\* the keyword kinds that map to no element kind
KindsWithoutElement == {"Episode", "Season", "Volume", "FileExtension"}

\* the free keyword tokens for which the keyword rule emits under opts
KeywordsEmitted(toks, opts) ==
    {k \in DOMAIN toks :
        /\ is_free(toks[k])
        /\ toks[k].keyword.kind \notin KindsWithoutElement \cup {"None"}
        /\ toks[k].keyword.kind = "ReleaseGroup" => opts["parse_release_group"]
        /\ toks[k].keyword.kind = "VideoResolution" => opts["parse_video_resolution"]}

\* the number of elements this step appends for the token at k
EmittedAt(k) ==
    Cardinality({i \in (Len(results) + 1)..Len(results') : results'[i].position = k - 1})

\* C25: the keyword rule emits exactly one element for each free keyword token
\* whose kind maps to an element kind and is not switched off, and marks the
\* token known if and only if the keyword is not ambiguous or the token is
\* enclosed; every other token, those of kind Episode, Season, Volume and
\* FileExtension among them, gets no element and is left unchanged
C25_KeywordMarking ==
    [][pc = "keywords" =>
           /\ Len(tokens') = Len(tokens)
           /\ Len(results') = Len(results) + Cardinality(KeywordsEmitted(tokens, options))
           /\ \A k \in DOMAIN tokens :
                  IF k \in KeywordsEmitted(tokens, options)
                  THEN /\ EmittedAt(k) = 1
                       /\ tokens'[k] =
                              [tokens[k] EXCEPT !.unknown =
                                  ~(~AmbiguousFlag(tokens[k].keyword.flags)
                                    \/ tokens[k].is_enclosed)]
                  ELSE /\ EmittedAt(k) = 0
                       /\ tokens'[k] = tokens[k]]_vars

\* "OVA_[OVA]_EP_1" after the keyword rule: two elements; the ambiguous OVA
\* outside brackets is still free, the enclosed one is known, and the Episode
\* keyword EP has no element and is unchanged
C25_Witness ==
    /\ input = <<"O", "V", "A", "_", "[", "O", "V", "A", "]", "_", "E", "P", "_", "1">>
    /\ pc = "file_checksum"
    /\ Len(results) = 2
    /\ results[1].position = 0 /\ results[2].position = 3
    /\ tokens[1].unknown
    /\ ~tokens[4].unknown
    /\ tokens[7].keyword.kind = "Episode" /\ tokens[7].unknown

----------------------------------------------------------------------------
(* C26: the slice of find_title *)

\* the numbers of open and of closed brackets among the tokens a .. b
OpensIn(toks, a, b) == Cardinality({j \in a..b : tok_is_open_bracket(toks[j])})

ClosesIn(toks, a, b) == Cardinality({j \in a..b : tok_is_closed_bracket(toks[j])})

\* the open bracket at j has its closed bracket among the tokens up to b
MatchedWithin(toks, j, b) ==
    \E m \in (j + 1)..b :
        tok_is_closed_bracket(toks[m]) /\ OpensIn(toks, j, m) = ClosesIn(toks, j, m)

\* the open bracket that matches the closed bracket at c, 0 for none
MatchingOpen(toks, c) ==
    IF {j \in 1..(c - 1) : tok_is_open_bracket(toks[j])
                           /\ OpensIn(toks, j, c) = ClosesIn(toks, j, c)} = {} THEN 0
    ELSE MaxOf({j \in 1..(c - 1) : tok_is_open_bracket(toks[j])
                                   /\ OpensIn(toks, j, c) = ClosesIn(toks, j, c)})

\* where find_title starts: the first free unenclosed token, else the fallback
TitleFirst(toks) ==
    IF \E k \in DOMAIN toks : is_free_unenclosed(toks[k])
    THEN MinOf({k \in DOMAIN toks : is_free_unenclosed(toks[k])})
    ELSE title_fallback(toks)[1]

\* the exclusive end before the post-conditions are applied
TitleEnd(toks) ==
    IF \E k \in DOMAIN toks : is_free_unenclosed(toks[k])
    THEN IF \E k \in (TitleFirst(toks) + 1)..Len(toks) : is_identified(toks[k])
         THEN MinOf({k \in (TitleFirst(toks) + 1)..Len(toks) : is_identified(toks[k])})
         ELSE Len(toks) + 1
    ELSE IF title_fallback(toks)[2] = 0 THEN Len(toks) + 1 ELSE title_fallback(toks)[2]

\* the exclusive end after post-condition (a) on the slice first .. last - 1
EndAfterUnmatched(toks, first, last) ==
    IF /\ OpensIn(toks, first, last - 1) # 0
       /\ OpensIn(toks, first, last - 1) # ClosesIn(toks, first, last - 1)
    THEN MaxOf({j \in first..(last - 1) : tok_is_open_bracket(toks[j])})
    ELSE last

\* post-condition (b): when the last non-delimiter before `end` is a closed
\* bracket other than ")", the slice ends before its matching open bracket,
\* which lies in the slice
TruncatedBeforeMatch(toks, range, first, end) ==
    (/\ PreviousNonDelimiter(toks, end) # 0
     /\ is_closed_not_paren(toks[PreviousNonDelimiter(toks, end)])) =>
        /\ range.last = MatchingOpen(toks, PreviousNonDelimiter(toks, end))
        /\ range.last >= first

\* the post-conditions of the slice `range` that find_title returns for toks
TitleSliceOk(toks, range) ==
    /\ range.status = "Some"
    /\ 1 <= range.first /\ range.first <= range.last /\ range.last <= Len(toks) + 1
    /\ \A j \in range.first..(range.last - 1) :
           tok_is_open_bracket(toks[j]) => MatchedWithin(toks, j, range.last - 1)
    /\ TruncatedBeforeMatch(toks, range, TitleFirst(toks),
                            EndAfterUnmatched(toks, TitleFirst(toks), TitleEnd(toks)))

\* C26: the slice find_title returns is a well-formed range (start <= end <=
\* token count) without an unmatched open bracket, and when its last
\* non-delimiter was a closed bracket other than ")" it ends before the open
\* bracket matching that closed bracket, an open bracket inside the slice
C26_TitleSlicePostConditions ==
    (pc = "title" /\ options["parse_title"] /\ find_title(tokens).status # "None") =>
        TitleSliceOk(tokens, find_title(tokens))

----------------------------------------------------------------------------
(* C27: the range of find_release_group *)

HasReleaseGroup(res) == \E i \in DOMAIN res : res[i].kind = "ReleaseGroup"

\* the range the loop over the brackets ends with, as <<first, last>>: first
\* is 0 when the search found no enclosed range
BracketedRange(toks) ==
    IF \E k \in DOMAIN toks : is_enclosed_unidentified(toks[k])
    THEN release_group_scan(toks,
             MinOf({k \in DOMAIN toks : is_enclosed_unidentified(toks[k])}),
             get_last_index_for_release_group(toks,
                 MinOf({k \in DOMAIN toks : is_enclosed_unidentified(toks[k])})))
    ELSE <<0, 0>>

\* the tokens of the range <<first, last>>, which runs to the end of the list
\* when last is 0
TokensOfRange(toks, range) ==
    range[1]..(IF range[2] = 0 THEN Len(toks) ELSE range[2] - 1)

\* C27: the bracketed range find_release_group chooses holds no token that an
\* earlier rule identified, and the release-group rule is not run when the
\* keyword rule emitted a ReleaseGroup element
C27_ReleaseGroupRangeIsFree ==
    [][pc = "release_group" =>
           IF options["parse_release_group"] /\ ~HasReleaseGroup(results)
           THEN BracketedRange(tokens)[1] # 0 =>
                    \A j \in TokensOfRange(tokens, BracketedRange(tokens)) :
                        ~is_identified(tokens[j])
           ELSE tokens' = tokens /\ results' = results]_vars

----------------------------------------------------------------------------
(* C28: combine_tokens *)

\* the first characters of the delimiter tokens of the slice
DelimitersOf(slice) ==
    {slice[i].value[1] : i \in {j \in DOMAIN slice : tok_is_delimiter(slice[j])}}

\* is the token at i of the slice a delimiter that a single space replaces
ReplacedBySpace(slice, i) ==
    /\ tok_is_delimiter(slice[i])
    /\ slice[i].value[1] \notin {",", "&"}
    /\ \/ is_space(slice[i].value[1]) \/ slice[i].value[1] = "_"
       \/ /\ slice[i].value[1] = "."
          /\ ~\E ch \in DelimitersOf(slice) : is_space(ch) \/ ch = "_"
       \/ /\ ~is_space(slice[i].value[1]) /\ slice[i].value[1] \notin {"_", "."}
          /\ Cardinality({j \in DOMAIN slice : tok_is_delimiter(slice[j])}) = 1

\* the token values from i on, with a space for each replaced delimiter
RECURSIVE WithSpacesFrom(_, _)
WithSpacesFrom(slice, i) ==
    IF i > Len(slice) THEN <<>>
    ELSE (IF ReplacedBySpace(slice, i) THEN <<" ">> ELSE slice[i].value)
         \o WithSpacesFrom(slice, i + 1)

\* s without its leading and trailing spaces and dashes
RECURSIVE Stripped(_)
Stripped(s) ==
    IF s = <<>> THEN s
    ELSE IF s[1] = " " \/ is_dash(s[1]) THEN Stripped(Tail(s))
    ELSE IF s[Len(s)] = " " \/ is_dash(s[Len(s)]) THEN Stripped(SubSeq(s, 1, Len(s) - 1))
    ELSE s

\* the value the step at this stage gives the element it appends for `range`
CombinedAsStated(stage, range) ==
    IF stage = "release_group" THEN ValuesFrom(RangeTokens(tokens, range), 1)
    ELSE Stripped(WithSpacesFrom(RangeTokens(tokens, range), 1))

\* the range the rule of this stage hands to combine_tokens
RangeAt(stage) ==
    CASE stage = "title" -> find_title(tokens)
      [] stage = "release_group" -> find_release_group(tokens)
      [] stage = "episode_title" -> find_episode_title(tokens)

\* C28: without keep_delimiters combine_tokens puts a single space for a
\* delimiter exactly when it is a space or an underscore, or a '.' in a slice
\* without space and underscore delimiters, or another delimiter than ',' and
\* '&' in a slice with exactly one delimiter token, and strips the result of
\* leading and trailing spaces and dashes; with keep_delimiters the result is
\* the plain concatenation of the token values
C28_CombineTokens ==
    [][(/\ pc \in {"title", "release_group", "episode_title"}
        /\ Len(results') = Len(results) + 1) =>
           results'[Len(results')].value = CombinedAsStated(pc, RangeAt(pc))]_vars

\* "a.b_c" after the title rule: the underscore became a space, the '.' stayed
\* because the slice holds an underscore
C28_Witness ==
    /\ input = <<"a", ".", "b", "_", "c">>
    /\ pc = "release_group"
    /\ results = <<Element("Title", <<"a", ".", "b", " ", "c">>, 0)>>

----------------------------------------------------------------------------
(* C29: what the rules of the parser change of the token list *)

\* t2 is t, or t with the unknown flag gone from true to false
SameOrMarked(t, t2) ==
    \/ t2 = t
    \/ t.unknown /\ t2 = [t EXCEPT !.unknown = FALSE]

\* C29: across every rule of parse_with_options the token list keeps its
\* length and order and no token's kind, value, keyword, is_enclosed or
\* position changes; only the unknown flag changes, from true to false, and
\* is never set again
C29_ParserFrame ==
    [][pc \notin {"tokenize", "fuse"} =>
           /\ Len(tokens') = Len(tokens)
           /\ \A k \in DOMAIN tokens : SameOrMarked(tokens[k], tokens'[k])]_vars

\* "Show_Name_-_01" at the end: the token 01 that the episode rule identified
\* is still identified and the rules that followed found it so
C29_Witness ==
    /\ input = <<"S", "h", "o", "w", "_", "N", "a", "m", "e", "_", "-", "_", "0", "1">>
    /\ pc = "done"
    /\ options = DefaultOptions
    /\ \A k \in DOMAIN tokens : tokens[k].position = k - 1
    /\ \E k \in DOMAIN tokens :
           /\ tokens[k].value = <<"0", "1">> /\ ~tokens[k].unknown
           /\ \E i \in DOMAIN results : results[i] = Element("Episode", <<"0", "1">>, k - 1)
    /\ \E i \in DOMAIN results : results[i].kind = "Title"

----------------------------------------------------------------------------
(* C30: get_pair_mut as the fusion pass calls it *)

\* the tokens for which the fusion pass calls get_pair_mut(tokens, index - 1,
\* index + 1), index = k - 1
FusableDelimiters(toks) ==
    {k \in DOMAIN toks : tok_is_delimiter(toks[k]) /\ toks[k].value[1] \in FusableStart}

\* C30: get_pair_mut(slice, i, j) returns the pair when i < j < slice.len()
\* and None, without panicking, otherwise, also for j = slice.len(), the call
\* the fusion pass makes for a fusable delimiter that is the last token
C30_PairOrNone ==
    pc = "fuse" =>
        \A k \in FusableDelimiters(tokens) :
            get_pair_mut(tokens, k - 2, k) =
                IF 0 <= k - 2 /\ k < Len(tokens) THEN "Some" ELSE "None"
=============================================================================
